---- MODULE Spec2Model ----
(***************************************************************************)
(* Model of the nonogram solver (lvu/nonogram, crate under src/solver/src): *)
(* the line propagator and its memoization, the fixed-point line harness,  *)
(* the recursive case split and the 2-SAT-style accelerator.               *)
(*                                                                         *)
(* Coordinates and indices are 0-based as in the source; TLA+ sequences    *)
(* are 1-based, so a cell of a line is cells[idx + 1].                     *)
(***************************************************************************)
EXTENDS Integers, Sequences, FiniteSets, TLC

\* ---------------------------------------------------------------- bounds
\* Line-level specification: line lengths 0..MaxLen, at most MaxHints hints
\* per line, each hint in 1..MaxHint.
MaxLen == 4
MaxHints == 2
MaxHint == 3
\* Solver specification: puzzles of at most MaxRows x MaxCols and MaxCells
\* cells, at most MaxPuzzleHints hints per line, each in 1..MaxPuzzleHint,
\* max_depth absent or in 0..MaxDepthArg.
MaxRows == 2
MaxCols == 3
MaxCells == 4
MaxPuzzleHints == 1
MaxPuzzleHint == 2
MaxDepthArg == 3
\* Wide specification: the recursive solve on MaxRows x MaxCols puzzles with
\* max_depth in 0..MaxDepthWide.
MaxDepthWide == 1
\* Graph specification: nodes 1..MaxGraphNodes, at most MaxEdges distinct
\* pairs passed to set_reachable.
MaxGraphNodes == 3
MaxEdges == 4
\* Impossible-assumption specification: assumptions on MaxImpCells cells, at
\* most MaxImpEdges distinct pairs passed to set_reachable.
MaxImpCells == 2
MaxImpEdges == 3
\* Deepening specification: the depth-bounded solver on puzzles of at most
\* MaxDeepenSide x MaxDeepenSide cells with max_depth in 0..MaxDeepen.
MaxDeepen == 2
MaxDeepenSide == 3
\* Field specification: fields of 1..MaxFieldRows by 1..MaxFieldCols cells.
MaxFieldRows == 2
MaxFieldCols == 2
\* The harness's all_changes grows on every applied change list (also when
\* the cells already hold the values); a harness call stops being followed
\* once the list would exceed MaxChanges entries.
MaxChanges == 24

\* ------------------------------------------------------------ cell domain
Filled == "Filled"
Empty == "Empty"
Unknown == "Unknown"

CellValue == {Filled, Empty, Unknown}

\* KNOWN with Empty tried before Filled.
KNOWN_EmptyFirst == <<Empty, Filled>>

\* pub const KNOWN: [CellValue; 2] = [Filled, Empty]
KNOWN == <<Filled, Empty>>

\* CellValue::invert; inverting Unknown panics in the source, the model never
\* calls it on Unknown (every call site passes a member of KNOWN).
invert(val) == IF val = Filled THEN Empty ELSE Filled

\* `*b as u8` of the enum: the declaration order Filled, Empty, Unknown.
AsU8(val) == CASE val = Filled -> 0
               [] val = Empty -> 1
               [] val = Unknown -> 2

\* Assumption { coords, val }
Assumption(coords, val) == [coords |-> coords, val |-> val]

\* Assumption::invert
AssInvert(ass) == Assumption(ass.coords, invert(ass.val))

\* ------------------------------------------------------------------ line
Row == "Row"
Col == "Col"

\* Line { line_type, line_idx, hints, cells }
Line(line_type, line_idx, hints, cells) ==
    [line_type |-> line_type, line_idx |-> line_idx, hints |-> hints, cells |-> cells]

\* Line::do_verify(hint_idx, cells_offset); VerifyLoop is the body of its
\* `for (start, &val) in cells[..size - current_hint + 1]` loop from `start` on.
RECURSIVE do_verify(_, _, _, _)
RECURSIVE VerifyLoop(_, _, _, _, _)
VerifyLoop(hints, cells, hint_idx, cells_offset, start) ==
    LET current_hint == hints[hint_idx + 1]
        size == Len(cells) - cells_offset
        end == start + current_hint
        at(i) == cells[cells_offset + i + 1]
    IN  IF start >= size - current_hint + 1 THEN FALSE
        ELSE IF /\ \A i \in start..(end - 1) : at(i) # Empty
                /\ (end = size \/ at(end) # Filled)
                /\ do_verify(hints, cells, hint_idx + 1, cells_offset + end + 1)
             THEN TRUE
        ELSE IF at(start) = Filled THEN FALSE
        ELSE VerifyLoop(hints, cells, hint_idx, cells_offset, start + 1)

\* do_verify without the check that the cells after the last hint hold no
\* Filled.
do_verify_no_tail_check(hints, cells, hint_idx, cells_offset) ==
    IF cells_offset >= Len(cells) THEN hint_idx = Len(hints)
    ELSE IF hint_idx = Len(hints) THEN TRUE
    ELSE IF hints[hint_idx + 1] > Len(cells) - cells_offset THEN FALSE
    ELSE VerifyLoop(hints, cells, hint_idx, cells_offset, 0)

do_verify(hints, cells, hint_idx, cells_offset) ==
    IF cells_offset >= Len(cells) THEN hint_idx = Len(hints)
    ELSE IF hint_idx = Len(hints)
         THEN \A i \in (cells_offset + 1)..Len(cells) : cells[i] # Filled
    ELSE IF hints[hint_idx + 1] > Len(cells) - cells_offset THEN FALSE
    ELSE VerifyLoop(hints, cells, hint_idx, cells_offset, 0)

\* Line::verify
verify(hints, cells) == do_verify(hints, cells, 0, 0)

\* Line::get_coords
get_coords(line_type, line_idx, idx) ==
    IF line_type = Row THEN <<line_idx, idx>> ELSE <<idx, line_idx>>

\* Option<Vec<Assumption>>
NoneSol == [tag |-> "None", changes |-> <<>>]
SomeSol(changes) == [tag |-> "Some", changes |-> changes]

\* The 'idxs loop of Line::do_solve from index idx on: cells is the line's
\* working buffer, result the assumptions pushed so far.
RECURSIVE SolveLoop(_, _, _, _)
SolveLoop(line, cells, idx, result) ==
    IF idx >= Len(cells) THEN result
    ELSE IF cells[idx + 1] # Unknown THEN SolveLoop(line, cells, idx + 1, result)
    ELSE LET tryF == [cells EXCEPT ![idx + 1] = KNOWN[1]]
             tryE == [cells EXCEPT ![idx + 1] = KNOWN[2]]
             coords == get_coords(line.line_type, line.line_idx, idx)
         IN  IF ~verify(line.hints, tryF)
             THEN SolveLoop(line, [cells EXCEPT ![idx + 1] = invert(KNOWN[1])], idx + 1,
                            Append(result, Assumption(coords, invert(KNOWN[1]))))
             ELSE IF ~verify(line.hints, tryE)
             THEN SolveLoop(line, [cells EXCEPT ![idx + 1] = invert(KNOWN[2])], idx + 1,
                            Append(result, Assumption(coords, invert(KNOWN[2]))))
             ELSE SolveLoop(line, cells, idx + 1, result)

\* do_solve without the verify of the line as given.
do_solve_unverified(line) == SomeSol(SolveLoop(line, line.cells, 0, <<>>))

\* Line::do_solve
do_solve_line(line) ==
    IF ~verify(line.hints, line.cells) THEN NoneSol
    ELSE SomeSol(SolveLoop(line, line.cells, 0, <<>>))

\* ------------------------------------------------------- line-level inputs
RECURSIVE SeqsUpTo(_, _)
SeqsUpTo(S, n) ==
    IF n = 0 THEN {<<>>}
    ELSE LET shorter == SeqsUpTo(S, n - 1)
         IN  shorter \cup {Append(s, x) : s \in {t \in shorter : Len(t) = n - 1}, x \in S}

HintLists == SeqsUpTo(1..MaxHint, MaxHints)
CellLines == SeqsUpTo(CellValue, MaxLen)

Idle == [op |-> "idle", out |-> NoneSol, ok |-> FALSE]

\* ----------------------------------------------------------------- field
\* Field { rows, cols }: the row-major grid and its column-major mirror.
FieldNew(nrows, ncols) ==
    [rows |-> [r \in 1..nrows |-> [c \in 1..ncols |-> Unknown]],
     cols |-> [c \in 1..ncols |-> [r \in 1..nrows |-> Unknown]]]

\* Field::get
FieldGet(field, coords) == field.rows[coords[1] + 1][coords[2] + 1]

\* Field::set with the column-major mirror left alone.
FieldSet_RowsOnly(field, coords, val) ==
    [rows |-> [field.rows EXCEPT ![coords[1] + 1][coords[2] + 1] = val],
     cols |-> field.cols]

\* Field::set
FieldSet(field, coords, val) ==
    [rows |-> [field.rows EXCEPT ![coords[1] + 1][coords[2] + 1] = val],
     cols |-> [field.cols EXCEPT ![coords[2] + 1][coords[1] + 1] = val]]

\* Field::row, Field::col
FieldRow(field, idx) == field.rows[idx + 1]
FieldCol(field, idx) == field.cols[idx + 1]

\* Field::is_solved
is_solved(field) ==
    \A r \in 1..Len(field.rows) : \A c \in 1..Len(field.rows[r]) : field.rows[r][c] # Unknown

\* Assumption::apply, Assumption::unapply
AssApply(ass, field) == FieldSet(field, ass.coords, ass.val)
AssUnapply(ass, field) == FieldSet(field, ass.coords, Unknown)

\* apply_changes: all_changes.extend_from_slice(changes), then every
\* assumption applied to the field in order.
RECURSIVE ApplyAll(_, _)
ApplyAll(changes, field) ==
    IF changes = <<>> THEN field
    ELSE ApplyAll(Tail(changes), AssApply(changes[1], field))

\* ------------------------------------------------------------ line cache
\* One byte of line_cache_key: a chunk of up to four cells, two bits each,
\* the first cell in the highest bits.
RECURSIVE PackChunk(_)
PackChunk(chunk) ==
    IF chunk = <<>> THEN 0
    ELSE (PackChunk(SubSeq(chunk, 1, Len(chunk) - 1)) * 4 + AsU8(chunk[Len(chunk)])) % 256

\* line_cache_key: cells.chunks(4), one byte each.
line_cache_key(cells) ==
    [k \in 1..((Len(cells) + 3) \div 4) |->
        PackChunk(SubSeq(cells, 4 * (k - 1) + 1,
                         IF 4 * k < Len(cells) THEN 4 * k ELSE Len(cells)))]

\* Line::cache_key
cache_key(line) == line_cache_key(line.cells)

\* Line::solve: the cached entry for the line's key when there is one, else
\* the result of do_solve, inserted under that key.
LineSolve(line, cache) ==
    LET key == cache_key(line)
    IN  IF key \in DOMAIN cache
        THEN [sol |-> cache[key], cache |-> cache]
        ELSE LET result == do_solve_line(line)
             IN  [sol |-> result, cache |-> (key :> result) @@ cache]

\* -------------------------------------------------------- solution result
Controversial == [tag |-> "Controversial", changes |-> <<>>, fields |-> {}]
Unsolved(changes) == [tag |-> "Unsolved", changes |-> changes, fields |-> {}]
Solved(fields) == [tag |-> "Solved", changes |-> <<>>, fields |-> fields]
\* assert_eq! failed: the call unwinds.
Panicked == [tag |-> "Panic", changes |-> <<>>, fields |-> {}]
\* No value: nothing has returned yet.
NoRet == [tag |-> "None", changes |-> <<>>, fields |-> {}]

\* max_depth: Option<usize>
NoDepth == [some |-> FALSE, d |-> 0]
SomeDepth(d) == [some |-> TRUE, d |-> d]

VARIABLES
    row_hints,      \* Solver.row_hints
    col_hints,      \* Solver.col_hints
    max_depth,      \* Solver.max_depth
    find_all,       \* Solver.find_all
    line_cache,     \* Solver.line_cache: key -> Option<Vec<Assumption>>
    algorithm,      \* the entry point called: "none" before the call
    stack,          \* the call stack: frames of do_solve, do_solve_2sat, do_2sat_step
    hs,             \* the running do_solve_by_lines call (a leaf call)
    ret,            \* the value the last finished call returned
    result,         \* what the entry point returned
    solved_line,    \* the last Line::solve call: its line, what it returned, its cells after
    earlier,        \* what an earlier Solver built on the same hints returned
    ln,             \* line-level specification: the line under test
    lres,           \* line-level specification: what the last operation returned
    graph,          \* graph specification: the ReachabilityGraph under test
    edges,          \* graph specification: the pairs passed to set_reachable so far
    lookup,         \* graph specification: the last is_reachable / get_reachable lookup
    fld,            \* field specification: the Field under test
    cells_set,      \* field specification: the value last set at each coordinate
    stored_solutions \* deepening specification: Solver.solutions of the depth-bounded solver

solver_vars == <<row_hints, col_hints, max_depth, find_all, line_cache, algorithm,
                 stack, hs, ret, result, solved_line>>
line_vars == <<ln, lres>>
graph_vars == <<graph, edges, lookup>>
field_vars == <<fld, cells_set>>
other_vars == <<earlier, line_vars, graph_vars, field_vars, stored_solutions>>
vars == <<solver_vars, other_vars>>

\* Solver::nrows, Solver::ncols
nrows == Len(row_hints)
ncols == Len(col_hints)

\* Solver::row_line, Solver::col_line
row_line(field, row_idx) == Line(Row, row_idx, row_hints[row_idx + 1], FieldRow(field, row_idx))
col_line(field, col_idx) == Line(Col, col_idx, col_hints[col_idx + 1], FieldCol(field, col_idx))

\* Solver::create_field
create_field == FieldNew(nrows, ncols)

\* max_depth_reached that lets one more level through.
max_depth_reached_late(depth) == IF max_depth.some THEN depth > max_depth.d + 1 ELSE FALSE

\* Solver::max_depth_reached
max_depth_reached(depth) == IF max_depth.some THEN depth > max_depth.d ELSE FALSE

\* ------------------------------------------------ do_solve_by_lines (harness)
\* pass_start records the field as it was when the current pass began.
HarnessIdle ==
    [pc |-> "idle", field |-> <<>>, all_changes |-> <<>>, row_idx |-> 0,
     todo |-> {}, changed |-> {}, pass_start |-> <<>>]

\* Entry of do_solve_by_lines(field): the first pass runs over 0..nrows.
HarnessStart(field) ==
    [pc |-> "rows0", field |-> field, all_changes |-> <<>>, row_idx |-> 0,
     todo |-> {}, changed |-> {}, pass_start |-> field]

NoCall == [line |-> Line(Row, 0, <<>>, <<>>), sol |-> NoneSol, hit |-> FALSE, after |-> <<>>]

\* The cells of `line` as the field holds them.
LineCellsIn(field, line) ==
    IF line.line_type = Row THEN FieldRow(field, line.line_idx)
    ELSE FieldCol(field, line.line_idx)

\* The call line.solve(cache) made by the harness on `line`, and the match on
\* its result: None returns Controversial, a non-empty list is applied.
\* `h` is the harness state after the line (its pc, todo, changed set by the
\* caller), `other` is the component of an assumption's coords inserted in the
\* changed set of the other line type (the first row pass tracks none).
HarnessSolveLine(line, h, track, other) ==
    LET r == LineSolve(line, line_cache)
        changes == r.sol.changes
    IN  /\ Len(hs.all_changes) + Len(changes) <= MaxChanges
        /\ line_cache' = r.cache
        /\ solved_line' = [line |-> line, sol |-> r.sol,
                           hit |-> cache_key(line) \in DOMAIN line_cache,
                           after |-> LineCellsIn(ApplyAll(changes, hs.field), line)]
        /\ IF r.sol.tag = "None"
           THEN /\ hs' = HarnessIdle
                /\ ret' = Controversial
           ELSE /\ hs' = [h EXCEPT
                            !.field = ApplyAll(changes, hs.field),
                            !.all_changes = hs.all_changes \o changes,
                            !.pass_start = IF h.pc # hs.pc
                                            THEN ApplyAll(changes, hs.field)
                                            ELSE hs.pass_start,
                            !.changed = IF track
                                         THEN h.changed \cup {changes[i].coords[other] : i \in 1..Len(changes)}
                                         ELSE {}]
                /\ ret' = NoRet
        /\ UNCHANGED <<row_hints, col_hints, max_depth, find_all, algorithm, stack, result>>
        /\ UNCHANGED other_vars

\* for row_idx in 0..self.nrows(): the first row pass; after the last row the
\* column pass starts with every column in changed_cols.
HarnessFirstRows ==
    /\ hs.pc = "rows0"
    /\ hs.row_idx < nrows
    /\ LET last == hs.row_idx + 1 = nrows
           h == [hs EXCEPT !.row_idx = hs.row_idx + 1,
                           !.pc = IF last THEN "cols" ELSE "rows0",
                           !.todo = IF last THEN 0..(ncols - 1) ELSE {},
                           !.changed = {}]
       IN  HarnessSolveLine(row_line(hs.field, hs.row_idx), h, FALSE, 1)

\* for &col_idx in changed_cols.iter(): one column, in the set's iteration
\* order (a HashSet: any remaining column may come next).
HarnessCol ==
    /\ hs.pc = "cols"
    /\ \E col_idx \in hs.todo :
          HarnessSolveLine(col_line(hs.field, col_idx),
                           [hs EXCEPT !.todo = hs.todo \ {col_idx}], TRUE, 1)

\* for &row_idx in changed_rows.iter(): one row.
HarnessRow ==
    /\ hs.pc = "rows"
    /\ \E row_idx \in hs.todo :
          HarnessSolveLine(row_line(hs.field, row_idx),
                           [hs EXCEPT !.todo = hs.todo \ {row_idx}], TRUE, 2)

\* After a pass: Solved when the field is solved, Unsolved when the pass
\* changed no line of the other type, else the pass over the other type.
HarnessPassDone ==
    /\ hs.pc \in {"cols", "rows"}
    /\ hs.todo = {}
    /\ IF is_solved(hs.field)
       THEN /\ ret' = Solved({hs.field})
            /\ hs' = HarnessIdle
       ELSE IF hs.changed = {}
       THEN /\ ret' = Unsolved(hs.all_changes)
            /\ hs' = HarnessIdle
       ELSE /\ ret' = NoRet
            /\ hs' = [hs EXCEPT !.pc = IF hs.pc = "cols" THEN "rows" ELSE "cols",
                                !.todo = hs.changed,
                                !.changed = {},
                                !.pass_start = hs.field]
    /\ UNCHANGED <<row_hints, col_hints, max_depth, find_all, line_cache, algorithm,
                   stack, result, solved_line>>
    /\ UNCHANGED other_vars

\* ------------------------------------------------------------ call stack
Top == stack[Len(stack)]
Pop == SubSeq(stack, 1, Len(stack) - 1)
ReplaceTop(frame) == [stack EXCEPT ![Len(stack)] = frame]

\* A call has returned to the frame on top of the stack.
Returned == hs.pc = "idle" /\ ret.tag # "None"

UnchangedConfig == UNCHANGED <<row_hints, col_hints, max_depth, find_all, algorithm>>

\* `return r` from the top frame.
Return(r) ==
    /\ stack' = Pop
    /\ ret' = r
    /\ hs' = hs

\* The top frame becomes `frame` and calls do_solve_by_lines(field).
CallByLines(frame, field) ==
    /\ stack' = ReplaceTop(frame)
    /\ hs' = HarnessStart(field)
    /\ ret' = NoRet

\* The top frame becomes `frame` and calls the function whose frame is `callee`.
Call(frame, callee) ==
    /\ stack' = Append(ReplaceTop(frame), callee)
    /\ ret' = NoRet
    /\ hs' = hs

\* The top frame becomes `frame` and goes on without a call.
Goto(frame) ==
    /\ stack' = ReplaceTop(frame)
    /\ ret' = NoRet
    /\ hs' = hs

\* Solver::iter_coords: (0..nrows) x (0..ncols), row-major; its k-th item.
CoordsAt(k) == <<k \div ncols, k % ncols>>
NumCoords == nrows * ncols

\* ------------------------------------------------------ Solver::do_solve
\* A frame holds the call's locals and, in forced, the inverted assumptions
\* the call has applied after a Controversial trial (in the source these are
\* only written into field); arg is the field the call was given.
DoSolveFrame(field, depth) ==
    [fn |-> "do_solve", pc |-> "start", field |-> field, depth |-> depth,
     all_changes |-> <<>>, solutions |-> {}, has_unsolved |-> FALSE,
     has_controversy |-> FALSE, ci |-> 0, vi |-> 1, forced |-> {}, arg |-> field]

\* Entry: the depth check, then by_lines = do_solve_by_lines(&field).
DoSolveEnter ==
    /\ stack # <<>> /\ Top.fn = "do_solve" /\ Top.pc = "start"
    /\ IF max_depth_reached(Top.depth)
       THEN Return(Unsolved(<<>>))
       ELSE CallByLines([Top EXCEPT !.pc = "by_lines"], Top.field)
    /\ UNCHANGED <<line_cache, result, solved_line>>
    /\ UnchangedConfig
    /\ UNCHANGED other_vars

\* match by_lines: Controversial and Solved return, Unsolved applies changes.
DoSolveByLines ==
    /\ stack # <<>> /\ Top.fn = "do_solve" /\ Top.pc = "by_lines"
    /\ Returned
    /\ IF ret.tag \in {"Controversial", "Solved"}
       THEN Return(ret)
       ELSE Goto([Top EXCEPT !.pc = "sweep",
                             !.field = ApplyAll(ret.changes, Top.field),
                             !.all_changes = Top.all_changes \o ret.changes])
    /\ UNCHANGED <<line_cache, result, solved_line>>
    /\ UnchangedConfig
    /\ UNCHANGED other_vars

\* for coords in self.iter_coords(): cells that are not Unknown are skipped;
\* after the last cell the collected solutions are returned or the harness is
\* run a last time.
DoSolveSweep ==
    /\ stack # <<>> /\ Top.fn = "do_solve" /\ Top.pc = "sweep"
    /\ IF Top.ci >= NumCoords
       THEN IF Top.solutions # {} /\ ~(Top.has_unsolved /\ find_all)
            THEN Return(Solved(Top.solutions))
            ELSE CallByLines([Top EXCEPT !.pc = "final"], Top.field)
       ELSE IF FieldGet(Top.field, CoordsAt(Top.ci)) # Unknown
       THEN Goto([Top EXCEPT !.ci = Top.ci + 1])
       ELSE Goto([Top EXCEPT !.pc = "try", !.vi = 1, !.has_controversy = FALSE])
    /\ UNCHANGED <<line_cache, result, solved_line>>
    /\ UnchangedConfig
    /\ UNCHANGED other_vars

\* for val in KNOWN: the assumption is applied and do_solve recurses.
DoSolveTry ==
    /\ stack # <<>> /\ Top.fn = "do_solve" /\ Top.pc = "try"
    /\ IF Top.vi > Len(KNOWN)
       THEN Goto([Top EXCEPT !.pc = "sweep", !.ci = Top.ci + 1])
       ELSE LET ass == Assumption(CoordsAt(Top.ci), KNOWN[Top.vi])
                field == AssApply(ass, Top.field)
            IN  Call([Top EXCEPT !.pc = "trial", !.field = field],
                     DoSolveFrame(field, Top.depth + 1))
    /\ UNCHANGED <<line_cache, result, solved_line>>
    /\ UnchangedConfig
    /\ UNCHANGED other_vars

\* match self.do_solve(&field, depth + 1)
DoSolveTrial ==
    /\ stack # <<>> /\ Top.fn = "do_solve" /\ Top.pc = "trial"
    /\ Returned
    /\ LET ass == Assumption(CoordsAt(Top.ci), KNOWN[Top.vi])
           solutions == Top.solutions \cup ret.fields
       IN  CASE ret.tag = "Solved" ->
                  IF ~find_all
                  THEN Return(Solved(solutions))
                  ELSE Goto([Top EXCEPT !.solutions = solutions,
                                        !.field = AssUnapply(ass, Top.field),
                                        !.pc = "try", !.vi = Top.vi + 1])
             [] ret.tag = "Unsolved" ->
                  Goto([Top EXCEPT !.has_unsolved = TRUE,
                                   !.field = AssUnapply(ass, Top.field),
                                   !.pc = "try", !.vi = Top.vi + 1])
             [] ret.tag = "Controversial" ->
                  IF Top.has_controversy
                  THEN Return(Controversial)
                  ELSE LET field == AssApply(AssInvert(ass), Top.field)
                       IN  CallByLines([Top EXCEPT !.pc = "flip", !.field = field,
                                                   !.forced = Top.forced \cup {AssInvert(ass)}],
                                       field)
             [] ret.tag = "Panic" -> Return(Panicked)
    /\ UNCHANGED <<line_cache, result, solved_line>>
    /\ UnchangedConfig
    /\ UNCHANGED other_vars

\* match self.do_solve_by_lines(&field) after the inverted assumption.
DoSolveFlip ==
    /\ stack # <<>> /\ Top.fn = "do_solve" /\ Top.pc = "flip"
    /\ Returned
    /\ LET solutions == Top.solutions \cup ret.fields
       IN  CASE ret.tag = "Controversial" -> Return(Controversial)
             [] ret.tag = "Unsolved" ->
                  Goto([Top EXCEPT !.field = ApplyAll(ret.changes, Top.field),
                                   !.all_changes = Top.all_changes \o ret.changes,
                                   !.has_controversy = TRUE,
                                   !.pc = "try", !.vi = Top.vi + 1])
             [] ret.tag = "Solved" ->
                  IF ~find_all
                  THEN Return(Solved(solutions))
                  ELSE Goto([Top EXCEPT !.solutions = solutions,
                                        !.has_controversy = TRUE,
                                        !.pc = "try", !.vi = Top.vi + 1])
    /\ UNCHANGED <<line_cache, result, solved_line>>
    /\ UnchangedConfig
    /\ UNCHANGED other_vars

\* match self.do_solve_by_lines(&field) after the sweep.
DoSolveFinal ==
    /\ stack # <<>> /\ Top.fn = "do_solve" /\ Top.pc = "final"
    /\ Returned
    /\ CASE ret.tag = "Solved" ->
              IF Top.solutions = ret.fields THEN Return(Solved(ret.fields))
              ELSE Return(Panicked)
         [] ret.tag = "Unsolved" -> Return(Unsolved(Top.all_changes \o ret.changes))
         [] ret.tag = "Controversial" -> Return(Controversial)
    /\ UNCHANGED <<line_cache, result, solved_line>>
    /\ UnchangedConfig
    /\ UNCHANGED other_vars

\* ------------------------------------------------------ ReachabilityGraph
\* nodes: the interned nodes in insertion order (a node's index is its
\* position); reachability_in[a] holds b when a is reachable from b,
\* reachability_out[b] holds a when a is reachable from b... both by index.
ReachNew == [nodes |-> <<>>, reachability_in |-> <<>>, reachability_out |-> <<>>]

\* rev_nodes: the index of an interned node, 0 when it is not interned.
rev_nodes(g, node) ==
    IF \E i \in 1..Len(g.nodes) : g.nodes[i] = node
    THEN CHOOSE i \in 1..Len(g.nodes) : g.nodes[i] = node
    ELSE 0

\* ReachabilityGraph::add_node
add_node(g, node) ==
    LET node_idx == Len(g.nodes) + 1
    IN  [nodes |-> Append(g.nodes, node),
         reachability_in |-> Append(g.reachability_in, {node_idx}),
         reachability_out |-> Append(g.reachability_out, {node_idx})]

\* ReachabilityGraph::get_node_idx_or_add: the graph after the call.
get_node_idx_or_add(g, node) == IF rev_nodes(g, node) # 0 THEN g ELSE add_node(g, node)

\* set_reachable that records the pair (a, b) alone, without the nodes that
\* reach a and the nodes reachable from b.
set_reachable_direct(g, a, b) ==
    LET g1 == get_node_idx_or_add(g, a)
        g2 == get_node_idx_or_add(g1, b)
        ia == rev_nodes(g2, a)
        ib == rev_nodes(g2, b)
    IN  [nodes |-> g2.nodes,
         reachability_in |-> [g2.reachability_in EXCEPT ![ib] = @ \cup {ia}],
         reachability_out |-> [g2.reachability_out EXCEPT ![ia] = @ \cup {ib}]]

\* ReachabilityGraph::set_reachable
set_reachable(g, a, b) ==
    LET g1 == get_node_idx_or_add(g, a)
        g2 == get_node_idx_or_add(g1, b)
        ia == rev_nodes(g2, a)
        ib == rev_nodes(g2, b)
        nodes_from == g2.reachability_in[ia]
        nodes_to == g2.reachability_out[ib]
    IN  [nodes |-> g2.nodes,
         reachability_in |->
            [dst \in 1..Len(g2.nodes) |->
                IF dst \in nodes_to THEN g2.reachability_in[dst] \cup nodes_from
                ELSE g2.reachability_in[dst]],
         reachability_out |->
            [src \in 1..Len(g2.nodes) |->
                IF src \in nodes_from THEN g2.reachability_out[src] \cup nodes_to
                ELSE g2.reachability_out[src]]]

\* is_reachable that takes a node to reach itself before it looks it up.
is_reachable_self_first(g, a, b) ==
    \/ a = b
    \/ /\ rev_nodes(g, a) # 0
       /\ rev_nodes(g, b) # 0
       /\ rev_nodes(g, b) \in g.reachability_out[rev_nodes(g, a)]

\* ReachabilityGraph::is_reachable
is_reachable(g, a, b) ==
    /\ rev_nodes(g, a) # 0
    /\ rev_nodes(g, b) # 0
    /\ rev_nodes(g, b) \in g.reachability_out[rev_nodes(g, a)]

\* nodes, as a set.
SeqToNodes(g) == {g.nodes[i] : i \in 1..Len(g.nodes)}

\* ReachabilityGraph::get_reachable, for an interned node: the nodes of its
\* out-set.
get_reachable(g, node) == {g.nodes[i] : i \in g.reachability_out[rev_nodes(g, node)]}

\* ReachabilityGraph::get_reachable: None for a node that is not interned.
get_reachable_option(g, node) ==
    IF rev_nodes(g, node) = 0 THEN [some |-> FALSE, nodes |-> {}]
    ELSE [some |-> TRUE, nodes |-> get_reachable(g, node)]

\* ReachabilityGraph::strongly_connected_components: one component per node
\* not yet visited, in node order; each component is a set (the source
\* collects it in the out-set's iteration order).
RECURSIVE SccLoop(_, _, _, _)
\* The loop without the skip of visited nodes.
SccLoopNoVisited(g, i, visited, acc) ==
    IF i > Len(g.nodes) THEN acc
    ELSE LET a == g.nodes[i]
             scc == {b \in get_reachable(g, a) : is_reachable(g, b, a)}
         IN  SccLoop(g, i + 1, visited \cup scc, Append(acc, scc))

SccLoop(g, i, visited, acc) ==
    IF i > Len(g.nodes) THEN acc
    ELSE IF g.nodes[i] \in visited THEN SccLoop(g, i + 1, visited, acc)
    ELSE LET a == g.nodes[i]
             scc == {b \in get_reachable(g, a) : is_reachable(g, b, a)}
         IN  SccLoop(g, i + 1, visited \cup scc, Append(acc, scc))

strongly_connected_components(g) == SccLoop(g, 1, {}, <<>>)

\* (usize, usize) tuple order
CoordsLe(x, y) == x[1] < y[1] \/ (x[1] = y[1] /\ x[2] <= y[2])

\* reachable.sort_unstable_by_key(|a| a.coords): the nodes in the order of
\* their coords (nodes of equal coords in either order; the windows below
\* compare coords only).
RECURSIVE SortByCoords(_)
SortByCoords(S) ==
    IF S = {} THEN <<>>
    ELSE LET m == CHOOSE x \in S : \A y \in S : CoordsLe(x.coords, y.coords)
         IN  <<m>> \o SortByCoords(S \ {m})

\* is_impossible that looks at the first window of the sorted nodes only.
is_impossible_first_window(g, node) ==
    LET reachable == SortByCoords(get_reachable(g, node))
    IN  Len(reachable) >= 2 /\ reachable[1].coords = reachable[2].coords

\* ReachabilityGraph<Assumption>::is_impossible: the nodes reachable from
\* `node` are sorted by coords; two adjacent ones with the same coords make
\* the node impossible.
is_impossible(g, node) ==
    LET reachable == SortByCoords(get_reachable(g, node))
    IN  \E i \in 1..(Len(reachable) - 1) : reachable[i].coords = reachable[i + 1].coords

\* ReachabilityGraph<Assumption>::get_impossible: the components whose
\* first member (scc[0]; rep[k] for the k-th component, the component being
\* collected in hash order) is impossible, flattened.
get_impossible(g, rep) ==
    LET sccs == strongly_connected_components(g)
    IN  UNION {sccs[k] : k \in {j \in 1..Len(sccs) : is_impossible(g, rep[j])}}

\* The possible choices of first members.
Representatives(g) ==
    LET sccs == strongly_connected_components(g)
    IN  {rep \in [1..Len(sccs) -> SeqToNodes(g)] : \A k \in 1..Len(sccs) : rep[k] \in sccs[k]}

\* Solver::iter_assumptions: iter_coords x KNOWN; its k-th item.
AssumptionAt(k) == Assumption(CoordsAt(k \div Len(KNOWN)), KNOWN[(k % Len(KNOWN)) + 1])
NumAssumptions == NumCoords * Len(KNOWN)

\* -------------------------------------------------- Solver::do_2sat_step
\* recurse is "by_lines" for |fld, _| self.do_solve_by_lines(fld) and "2sat"
\* for |fld, d| self.do_solve_2sat(fld, d + 1).  A frame holds the call's
\* locals and two records of what the sweep did: tried, the index pairs
\* whose refinement was called, and contra, those whose refinement returned
\* Controversial.
StepFrame(field, depth, recurse) ==
    [fn |-> "do_2sat_step", pc |-> "pairs", field |-> field, depth |-> depth,
     recurse |-> recurse, reach |-> ReachNew, solutions |-> {},
     has_unsolved |-> FALSE, a1 |-> 0, a2 |-> 0,
     all_changes |-> <<>>, sccs |-> <<>>, left |-> {}, tried |-> {}, contra |-> {}]

\* The Controversial arm with the first implication only.
record_contradiction_one_way(reach, ass1, ass2) ==
    set_reachable(reach, ass1, AssInvert(ass2))

\* The Controversial arm: reach.set_reachable(&ass1, &ass2.invert()), then
\* reach.set_reachable(&ass2, &ass1.invert()).
record_contradiction(reach, ass1, ass2) ==
    set_reachable(set_reachable(reach, ass1, AssInvert(ass2)), ass2, AssInvert(ass1))

Solve2SatFrame(field, depth) ==
    [fn |-> "do_solve_2sat", pc |-> "start", field |-> field, depth |-> depth,
     all_changes |-> <<>>, arg |-> field]

\* The two loops over iter_assumptions, advanced to the next pair that is
\* tried: ass1 on an Unknown cell, ass2 on an Unknown cell with smaller
\* coords and ass1 -> not ass2 not yet reachable. The pair's indices, or
\* a1 = NumAssumptions when the loops are over.
RECURSIVE NextPair(_, _, _, _)
NextPair(field, reach, a1, a2) ==
    IF a1 >= NumAssumptions THEN [a1 |-> NumAssumptions, a2 |-> 0]
    ELSE IF FieldGet(field, AssumptionAt(a1).coords) # Unknown
    THEN NextPair(field, reach, a1 + 1, 0)
    ELSE IF a2 >= NumAssumptions THEN NextPair(field, reach, a1 + 1, 0)
    ELSE LET ass1 == AssumptionAt(a1)
             ass2 == AssumptionAt(a2)
         IN  IF \/ CoordsLe(ass1.coords, ass2.coords)
                \/ FieldGet(field, ass2.coords) # Unknown
                \/ is_reachable(reach, ass1, AssInvert(ass2))
             THEN NextPair(field, reach, a1, a2 + 1)
             ELSE [a1 |-> a1, a2 |-> a2]

\* The pair loops up to the next recurse(&field, depth + 1) call; after the
\* loops the collected solutions are returned or apply_impossible_matches
\* starts on a clone of the field.
StepPairs ==
    /\ stack # <<>> /\ Top.fn = "do_2sat_step" /\ Top.pc = "pairs"
    /\ LET p == NextPair(Top.field, Top.reach, Top.a1, Top.a2)
       IN  IF p.a1 >= NumAssumptions
           THEN IF Cardinality(Top.solutions) > 0 /\ ~Top.has_unsolved
                THEN Return(Solved(Top.solutions))
                ELSE Goto([Top EXCEPT !.pc = "impossible",
                                      !.a1 = p.a1, !.a2 = p.a2,
                                      !.sccs = strongly_connected_components(Top.reach),
                                      !.left = {}, !.all_changes = <<>>])
           ELSE LET field == AssApply(AssumptionAt(p.a2), AssApply(AssumptionAt(p.a1), Top.field))
                    frame == [Top EXCEPT !.pc = "pair", !.a1 = p.a1, !.a2 = p.a2,
                                         !.field = field,
                                         !.tried = Top.tried \cup {<<p.a1, p.a2>>}]
                IN  IF Top.recurse = "by_lines"
                    THEN CallByLines(frame, field)
                    ELSE Call(frame, Solve2SatFrame(field, Top.depth + 1 + 1))
    /\ UNCHANGED <<line_cache, result, solved_line>>
    /\ UnchangedConfig
    /\ UNCHANGED other_vars

\* match recurse(&field, depth + 1), then both assumptions are undone.
StepPair ==
    /\ stack # <<>> /\ Top.fn = "do_2sat_step" /\ Top.pc = "pair"
    /\ Returned
    /\ LET ass1 == AssumptionAt(Top.a1)
           ass2 == AssumptionAt(Top.a2)
           undone == AssUnapply(ass1, AssUnapply(ass2, Top.field))
           next == [Top EXCEPT !.pc = "pairs", !.a2 = Top.a2 + 1, !.field = undone]
       IN  CASE ret.tag = "Unsolved" -> Goto([next EXCEPT !.has_unsolved = TRUE])
             [] ret.tag = "Solved" ->
                  IF ~find_all
                  THEN Return(Solved(Top.solutions \cup ret.fields))
                  ELSE Goto([next EXCEPT !.solutions = Top.solutions \cup ret.fields])
             [] ret.tag = "Controversial" ->
                  Goto([next EXCEPT !.reach = record_contradiction(Top.reach, ass1, ass2),
                                    !.contra = Top.contra \cup {<<Top.a1, Top.a2>>}])
    /\ UNCHANGED <<line_cache, result, solved_line>>
    /\ UnchangedConfig
    /\ UNCHANGED other_vars

\* ---------------------------------------- Solver::apply_impossible_matches
\* get_impossible: the next component is tested on its first member (any
\* member: the component is collected in hash order); a component that is
\* not impossible is dropped, the members of an impossible one are visited.
\* After the last component: no change returns Unsolved([]), else the
\* harness runs on the changed field.
ImpossibleNextScc ==
    /\ stack # <<>> /\ Top.fn = "do_2sat_step" /\ Top.pc = "impossible"
    /\ Top.left = {}
    /\ IF Top.sccs = <<>>
       THEN IF Top.all_changes = <<>>
            THEN Return(Unsolved(<<>>))
            ELSE CallByLines([Top EXCEPT !.pc = "imp_by_lines"], Top.field)
       ELSE \E member \in Top.sccs[1] :
               Goto([Top EXCEPT !.sccs = Tail(Top.sccs),
                                !.left = IF is_impossible(Top.reach, member)
                                         THEN Top.sccs[1] ELSE {}])
    /\ UNCHANGED <<line_cache, result, solved_line>>
    /\ UnchangedConfig
    /\ UNCHANGED other_vars

\* The loop body that never reports a contradiction: a cell that is not
\* Unknown is left alone.
impossible_match_unchecked(field, all_changes, ass) ==
    LET old_val == FieldGet(field, ass.coords)
        ass_inv == AssInvert(ass)
    IN  IF old_val = Unknown
        THEN [controversial |-> FALSE, field |-> AssApply(ass_inv, field),
              all_changes |-> Append(all_changes, ass_inv)]
        ELSE [controversial |-> FALSE, field |-> field, all_changes |-> all_changes]

\* The body of `for ass in reach.get_impossible()`: an Unknown cell takes the
\* inverted value, which is pushed to all_changes; a cell holding the
\* impossible value makes the call return Controversial.
impossible_match(field, all_changes, ass) ==
    LET old_val == FieldGet(field, ass.coords)
        ass_inv == AssInvert(ass)
    IN  IF old_val = Unknown
        THEN [controversial |-> FALSE, field |-> AssApply(ass_inv, field),
              all_changes |-> Append(all_changes, ass_inv)]
        ELSE [controversial |-> old_val = ass.val, field |-> field,
              all_changes |-> all_changes]

\* for ass in reach.get_impossible(): one impossible assumption.
ImpossibleVisit ==
    /\ stack # <<>> /\ Top.fn = "do_2sat_step" /\ Top.pc = "impossible"
    /\ \E ass \in Top.left :
          LET m == impossible_match(Top.field, Top.all_changes, ass)
          IN  IF m.controversial
              THEN Return(Controversial)
              ELSE Goto([Top EXCEPT !.field = m.field,
                                    !.all_changes = m.all_changes,
                                    !.left = Top.left \ {ass}])
    /\ UNCHANGED <<line_cache, result, solved_line>>
    /\ UnchangedConfig
    /\ UNCHANGED other_vars

\* match by_lines at the end of apply_impossible_matches.
ImpossibleByLines ==
    /\ stack # <<>> /\ Top.fn = "do_2sat_step" /\ Top.pc = "imp_by_lines"
    /\ Returned
    /\ IF ret.tag = "Unsolved"
       THEN Return(Unsolved(Top.all_changes \o ret.changes))
       ELSE Return(ret)
    /\ UNCHANGED <<line_cache, result, solved_line>>
    /\ UnchangedConfig
    /\ UNCHANGED other_vars

\* ------------------------------------------------- Solver::do_solve_2sat
\* Entry: by_lines = self.do_solve_by_lines(&field).
Solve2SatEnter ==
    /\ stack # <<>> /\ Top.fn = "do_solve_2sat" /\ Top.pc = "start"
    /\ CallByLines([Top EXCEPT !.pc = "by_lines"], Top.field)
    /\ UNCHANGED <<line_cache, result, solved_line>>
    /\ UnchangedConfig
    /\ UNCHANGED other_vars

\* match by_lines; then the first loop calls do_2sat_step with the harness as
\* refinement.
Solve2SatByLines ==
    /\ stack # <<>> /\ Top.fn = "do_solve_2sat" /\ Top.pc = "by_lines"
    /\ Returned
    /\ IF ret.tag \in {"Controversial", "Solved"}
       THEN Return(ret)
       ELSE IF max_depth_reached(Top.depth)
       THEN Return(Unsolved(ret.changes))
       ELSE LET field == ApplyAll(ret.changes, Top.field)
            IN  Call([Top EXCEPT !.pc = "step_by_lines", !.field = field,
                                 !.all_changes = Top.all_changes \o ret.changes],
                     StepFrame(field, Top.depth, "by_lines"))
    /\ UNCHANGED <<line_cache, result, solved_line>>
    /\ UnchangedConfig
    /\ UNCHANGED other_vars

\* match by_step in either loop: Solved and Controversial return; changes are
\* applied and the step repeats; no change leaves the loop (the first loop
\* goes on to the second, whose refinement is do_solve_2sat; the second
\* returns Unsolved(all_changes)).
Solve2SatStep ==
    /\ stack # <<>> /\ Top.fn = "do_solve_2sat"
    /\ Top.pc \in {"step_by_lines", "step_2sat"}
    /\ Returned
    /\ IF ret.tag \in {"Controversial", "Solved"}
       THEN Return(ret)
       ELSE IF ret.changes = <<>>
       THEN IF Top.pc = "step_by_lines"
            THEN Call([Top EXCEPT !.pc = "step_2sat"], StepFrame(Top.field, Top.depth, "2sat"))
            ELSE Return(Unsolved(Top.all_changes))
       ELSE LET field == ApplyAll(ret.changes, Top.field)
            IN  Call([Top EXCEPT !.field = field,
                                 !.all_changes = Top.all_changes \o ret.changes],
                     StepFrame(field, Top.depth,
                               IF Top.pc = "step_by_lines" THEN "by_lines" ELSE "2sat"))
    /\ UNCHANGED <<line_cache, result, solved_line>>
    /\ UnchangedConfig
    /\ UNCHANGED other_vars

\* ---------------------------------------------------------- entry points
\* Solver::solve_by_lines
solve_by_lines ==
    /\ algorithm = "none"
    /\ algorithm' = "solve_by_lines"
    /\ hs' = HarnessStart(create_field)
    /\ UNCHANGED <<row_hints, col_hints, max_depth, find_all, line_cache, stack, ret,
                   result, solved_line>>
    /\ UNCHANGED other_vars

\* Solver::solve
solve ==
    /\ algorithm = "none"
    /\ algorithm' = "solve"
    /\ stack' = <<DoSolveFrame(create_field, 0)>>
    /\ UNCHANGED <<row_hints, col_hints, max_depth, find_all, line_cache, hs, ret,
                   result, solved_line>>
    /\ UNCHANGED other_vars

\* Solver::solve_2sat
solve_2sat ==
    /\ algorithm = "none"
    /\ algorithm' = "solve_2sat"
    /\ stack' = <<Solve2SatFrame(create_field, 0)>>
    /\ UNCHANGED <<row_hints, col_hints, max_depth, find_all, line_cache, hs, ret,
                   result, solved_line>>
    /\ UNCHANGED other_vars

\* The entry point returns to its caller.
Finish ==
    /\ algorithm # "none"
    /\ stack = <<>>
    /\ Returned
    /\ result.tag = "None"
    /\ result' = ret
    /\ UNCHANGED <<row_hints, col_hints, max_depth, find_all, line_cache, algorithm,
                   stack, hs, ret, solved_line>>
    /\ UNCHANGED other_vars

\* ------------------------------------------------------- solver's inputs
\* No lookup has been made on the graph under test.
NoLookup == [done |-> FALSE, a |-> 0, b |-> 0, reachable |-> FALSE,
             from_a |-> [some |-> FALSE, nodes |-> {}], before |-> ReachNew]

\* The graph and the field under test of the unit-level specifications, not
\* in use.
UnitsIdle ==
    /\ graph = ReachNew
    /\ edges = {}
    /\ lookup = NoLookup
    /\ fld = FieldNew(0, 0)
    /\ cells_set = <<>>
    /\ stored_solutions = {}

\* No earlier Solver has run on the hints.
NoEarlier == [algorithm |-> "none", find_all |-> FALSE, result |-> NoRet]

PuzzleHintLists == SeqsUpTo(1..MaxPuzzleHint, MaxPuzzleHints)

Shapes == {s \in (1..MaxRows) \X (1..MaxCols) : s[1] * s[2] <= MaxCells}

LineIdle == Line(Row, 0, <<>>, <<>>)

\* Solver::from_hints: the state after construction, on any puzzle of the
\* bounded family, with any max_depth and find_all.
Init ==
    /\ \E s \in Shapes :
          /\ row_hints \in [1..s[1] -> PuzzleHintLists]
          /\ col_hints \in [1..s[2] -> PuzzleHintLists]
    /\ max_depth \in {NoDepth} \cup {SomeDepth(d) : d \in 0..MaxDepthArg}
    /\ find_all \in BOOLEAN
    /\ line_cache = <<>>
    /\ algorithm = "none"
    /\ stack = <<>>
    /\ hs = HarnessIdle
    /\ ret = NoRet
    /\ result = NoRet
    /\ solved_line = NoCall
    /\ earlier = NoEarlier
    /\ UnitsIdle
    /\ ln = LineIdle
    /\ lres = Idle

Next ==
    \/ solve_by_lines
    \/ solve
    \/ solve_2sat
    \/ HarnessFirstRows
    \/ HarnessCol
    \/ HarnessRow
    \/ HarnessPassDone
    \/ DoSolveEnter
    \/ DoSolveByLines
    \/ DoSolveSweep
    \/ DoSolveTry
    \/ DoSolveTrial
    \/ DoSolveFlip
    \/ DoSolveFinal
    \/ StepPairs
    \/ StepPair
    \/ ImpossibleNextScc
    \/ ImpossibleVisit
    \/ ImpossibleByLines
    \/ Solve2SatEnter
    \/ Solve2SatByLines
    \/ Solve2SatStep
    \/ Finish

Spec == Init /\ [][Next]_vars

\* ---------------------------------------------------- 2-SAT specification
\* solve_2sat alone, on the puzzles of Init.
Next2Sat ==
    \/ solve_2sat
    \/ HarnessFirstRows
    \/ HarnessCol
    \/ HarnessRow
    \/ HarnessPassDone
    \/ StepPairs
    \/ StepPair
    \/ ImpossibleNextScc
    \/ ImpossibleVisit
    \/ ImpossibleByLines
    \/ Solve2SatEnter
    \/ Solve2SatByLines
    \/ Solve2SatStep
    \/ Finish

Spec2Sat == Init /\ [][Next2Sat]_vars

\* ----------------------------------------------------- wide specification
\* The recursive solve alone, on the largest shape, with a bounded depth.
InitWide ==
    /\ row_hints \in [1..MaxRows -> PuzzleHintLists]
    /\ col_hints \in [1..MaxCols -> PuzzleHintLists]
    /\ max_depth \in {SomeDepth(d) : d \in 0..MaxDepthWide}
    /\ find_all \in BOOLEAN
    /\ line_cache = <<>>
    /\ algorithm = "none"
    /\ stack = <<>>
    /\ hs = HarnessIdle
    /\ ret = NoRet
    /\ result = NoRet
    /\ solved_line = NoCall
    /\ earlier = NoEarlier
    /\ UnitsIdle
    /\ ln = LineIdle
    /\ lres = Idle

NextWide ==
    \/ solve
    \/ HarnessFirstRows
    \/ HarnessCol
    \/ HarnessRow
    \/ HarnessPassDone
    \/ DoSolveEnter
    \/ DoSolveByLines
    \/ DoSolveSweep
    \/ DoSolveTry
    \/ DoSolveTrial
    \/ DoSolveFlip
    \/ DoSolveFinal
    \/ Finish

SpecWide == InitWide /\ [][NextWide]_vars

\* ----------------------------------------------------- paired specification
\* Two Solvers built one after the other by from_hints on the same hints and
\* max_depth: the first runs solve, the second runs solve or solve_by_lines
\* with find_all = false on a cache of its own.
InitPaired ==
    /\ \E s \in Shapes :
          /\ row_hints \in [1..s[1] -> PuzzleHintLists]
          /\ col_hints \in [1..s[2] -> PuzzleHintLists]
    /\ max_depth \in {NoDepth} \cup {SomeDepth(d) : d \in 0..MaxDepthArg}
    /\ find_all \in BOOLEAN
    /\ line_cache = <<>>
    /\ algorithm = "none"
    /\ stack = <<>>
    /\ hs = HarnessIdle
    /\ ret = NoRet
    /\ result = NoRet
    /\ solved_line = NoCall
    /\ earlier = NoEarlier
    /\ UnitsIdle
    /\ ln = LineIdle
    /\ lres = Idle

\* The first Solver runs solve.
solve_first ==
    /\ earlier = NoEarlier
    /\ solve

\* The second Solver runs solve_by_lines.
solve_by_lines_second ==
    /\ earlier # NoEarlier
    /\ solve_by_lines

\* The second Solver runs solve.
solve_second ==
    /\ earlier # NoEarlier
    /\ solve

\* Solver::from_hints once more, after the first Solver returned: same hints
\* and max_depth, find_all = false, an empty line cache.
from_hints_again ==
    /\ earlier = NoEarlier
    /\ result.tag # "None"
    /\ earlier' = [algorithm |-> algorithm, find_all |-> find_all, result |-> result]
    /\ find_all' = FALSE
    /\ line_cache' = <<>>
    /\ algorithm' = "none"
    /\ stack' = <<>>
    /\ hs' = HarnessIdle
    /\ ret' = NoRet
    /\ result' = NoRet
    /\ solved_line' = NoCall
    /\ UNCHANGED <<row_hints, col_hints, max_depth>>
    /\ UNCHANGED <<line_vars, graph_vars, field_vars, stored_solutions>>

NextPaired ==
    \/ solve_first
    \/ solve_second
    \/ solve_by_lines_second
    \/ from_hints_again
    \/ HarnessFirstRows
    \/ HarnessCol
    \/ HarnessRow
    \/ HarnessPassDone
    \/ DoSolveEnter
    \/ DoSolveByLines
    \/ DoSolveSweep
    \/ DoSolveTry
    \/ DoSolveTrial
    \/ DoSolveFlip
    \/ DoSolveFinal
    \/ Finish

SpecPaired == InitPaired /\ [][NextPaired]_vars

\* ----------------------------------------------------- graph specification
\* The node type T of the graph under test.
GraphNodes == 1..MaxGraphNodes

\* ReachabilityGraph::new, the solver and the other units idle.
InitGraph ==
    /\ graph = ReachNew
    /\ edges = {}
    /\ lookup = NoLookup
    /\ fld = FieldNew(0, 0)
    /\ cells_set = <<>>
    /\ stored_solutions = {}
    /\ ln = LineIdle
    /\ lres = Idle
    /\ row_hints = <<>>
    /\ col_hints = <<>>
    /\ max_depth = NoDepth
    /\ find_all = FALSE
    /\ line_cache = <<>>
    /\ algorithm = "none"
    /\ stack = <<>>
    /\ hs = HarnessIdle
    /\ ret = NoRet
    /\ result = NoRet
    /\ solved_line = NoCall
    /\ earlier = NoEarlier

\* One call graph.set_reachable(&a, &b) with a != b.
GraphSetReachable ==
    /\ \E a \in GraphNodes : \E b \in GraphNodes \ {a} :
          /\ Cardinality(edges \cup {<<a, b>>}) <= MaxEdges
          /\ graph' = set_reachable(graph, a, b)
          /\ edges' = edges \cup {<<a, b>>}
    /\ lookup' = NoLookup
    /\ UNCHANGED <<solver_vars, earlier, line_vars, field_vars, stored_solutions>>

\* One lookup graph.is_reachable(&a, &b) and graph.get_reachable(&a): both
\* take &self.
GraphLookup ==
    /\ \E a \in GraphNodes : \E b \in GraphNodes :
          lookup' = [done |-> TRUE, a |-> a, b |-> b,
                     reachable |-> is_reachable(graph, a, b),
                     from_a |-> get_reachable_option(graph, a),
                     before |-> graph]
    /\ UNCHANGED <<graph, edges>>
    /\ UNCHANGED <<solver_vars, earlier, line_vars, field_vars, stored_solutions>>

NextGraph == GraphSetReachable \/ GraphLookup

SpecGraph == InitGraph /\ [][NextGraph]_vars

\* ---------------------------------------------- line-level specification
InitLine ==
    /\ ln \in {Line(t, 0, h, c) : t \in {Row, Col}, h \in HintLists, c \in CellLines}
    /\ lres = Idle
    /\ row_hints = <<>>
    /\ col_hints = <<>>
    /\ max_depth = NoDepth
    /\ find_all = FALSE
    /\ line_cache = <<>>
    /\ algorithm = "none"
    /\ stack = <<>>
    /\ hs = HarnessIdle
    /\ ret = NoRet
    /\ result = NoRet
    /\ solved_line = NoCall
    /\ earlier = NoEarlier
    /\ UnitsIdle

\* One call of Line::verify on the line under test.
LineVerify ==
    /\ lres.op = "idle"
    /\ lres' = [op |-> "verify", out |-> NoneSol, ok |-> verify(ln.hints, ln.cells)]
    /\ UNCHANGED <<ln, earlier, graph_vars, field_vars, stored_solutions>>
    /\ UNCHANGED solver_vars

\* One call of Line::do_solve on the line under test.
LineDoSolve ==
    /\ lres.op = "idle"
    /\ lres' = [op |-> "do_solve", out |-> do_solve_line(ln), ok |-> FALSE]
    /\ UNCHANGED <<ln, earlier, graph_vars, field_vars, stored_solutions>>
    /\ UNCHANGED solver_vars

NextLine == LineVerify \/ LineDoSolve

SpecLine == InitLine /\ [][NextLine]_vars

\* -------------------------------------------- reference semantics of a line
\* Every assignment of the Unknown cells of `cells` to Filled or Empty.
RECURSIVE Completions(_)
Completions(cells) ==
    IF cells = <<>> THEN {<<>>}
    ELSE LET last == cells[Len(cells)]
             vals == IF last = Unknown THEN {Filled, Empty} ELSE {last}
         IN  {Append(p, v) : p \in Completions(SubSeq(cells, 1, Len(cells) - 1)), v \in vals}

\* The lengths of the maximal runs of Filled of a fully known line, in order.
RECURSIVE RunsFrom(_, _, _)
RunsFrom(cells, i, cur) ==
    IF i > Len(cells) THEN (IF cur > 0 THEN <<cur>> ELSE <<>>)
    ELSE IF cells[i] = Filled THEN RunsFrom(cells, i + 1, cur + 1)
    ELSE IF cur > 0 THEN <<cur>> \o RunsFrom(cells, i + 1, 0)
    ELSE RunsFrom(cells, i + 1, 0)

Runs(cells) == RunsFrom(cells, 1, 0)

ValidCompletions(hints, cells) == {a \in Completions(cells) : Runs(a) = hints}

RECURSIVE SumSeq(_)
SumSeq(s) == IF s = <<>> THEN 0 ELSE s[1] + SumSeq(Tail(s))

\* Cells the hints need: their sum plus one gap between consecutive runs.
HintsNeed(hints) == IF hints = <<>> THEN 0 ELSE SumSeq(hints) + Len(hints) - 1

\* The assumptions every valid completion of the line agrees on, on cells
\* that are Unknown in the line.
ForcedOf(line) ==
    LET valid == ValidCompletions(line.hints, line.cells)
    IN  {Assumption(get_coords(line.line_type, line.line_idx, i - 1), v) :
            <<i, v>> \in {p \in (1..Len(line.cells)) \X {Filled, Empty} :
                            /\ line.cells[p[1]] = Unknown
                            /\ \A a \in valid : a[p[1]] = p[2]}}

SeqToSet(s) == {s[i] : i \in 1..Len(s)}

\* ---------------------------------------- reference semantics of a puzzle
\* Every fully known grid of the puzzle's shape.
AllGrids ==
    {[rows |-> [r \in 1..nrows |-> [c \in 1..ncols |-> g[r][c]]],
      cols |-> [c \in 1..ncols |-> [r \in 1..nrows |-> g[r][c]]]] :
        g \in [1..nrows -> [1..ncols -> {Filled, Empty}]]}

\* The grid has no Unknown cell and the runs of Filled of every row and
\* column are the line's hints.
SatisfiesHints(field) ==
    /\ DOMAIN field.rows = 1..nrows
    /\ \A r \in 1..nrows :
          /\ Len(field.rows[r]) = ncols
          /\ \A c \in 1..ncols : field.rows[r][c] \in {Filled, Empty}
          /\ Runs(field.rows[r]) = row_hints[r]
    /\ \A c \in 1..ncols :
          Runs([r \in 1..nrows |-> field.rows[r][c]]) = col_hints[c]

\* The solutions of the puzzle.
PuzzleSolutions == {g \in AllGrids : SatisfiesHints(g)}

Done == result.tag # "None"

\* ------------------------------------------------------------------ claims
\* C1: whenever solve_by_lines, solve or solve_2sat returns Solved(S), every
\* field of S has no Unknown cell and every row and column of it has runs of
\* Filled of exactly the hinted lengths, in order.
C1_SolvedFieldsSatisfyHints ==
    (Done /\ result.tag = "Solved") =>
        \A f \in result.fields : is_solved(f) /\ SatisfiesHints(f)

\* C2: with find_all = true, whenever solve or solve_2sat returns Solved(S),
\* S is exactly the set of the grids that satisfy every hint of the puzzle.
C2_FindAllReturnsEverySolution ==
    (Done /\ find_all /\ algorithm \in {"solve", "solve_2sat"} /\ result.tag = "Solved") =>
        result.fields = PuzzleSolutions

\* C3: Line::do_solve returns None exactly when no assignment of the Unknown
\* cells satisfies the hints; otherwise it returns, once each, exactly the
\* cells that were Unknown and have one value in every valid assignment, with
\* that value, and no assumption on a cell that was already known.
C3_DoSolveReturnsForcedCells ==
    lres.op = "do_solve" =>
        LET changes == lres.out.changes
        IN  /\ lres.out.tag = "None" <=> ValidCompletions(ln.hints, ln.cells) = {}
            /\ lres.out.tag = "Some" =>
                  /\ SeqToSet(changes) = ForcedOf(ln)
                  /\ Cardinality(SeqToSet(changes)) = Len(changes)
                  /\ \A i \in 1..Len(changes) :
                        /\ changes[i].val \in {Filled, Empty}
                        /\ \E idx \in 0..(Len(ln.cells) - 1) :
                              /\ changes[i].coords = get_coords(ln.line_type, ln.line_idx, idx)
                              /\ ln.cells[idx + 1] = Unknown

\* C3 witness: do_solve returned forced cells on a line that also has a known
\* cell and an Unknown cell that is not forced.
C3_Witness ==
    /\ lres.op = "do_solve"
    /\ lres.out.tag = "Some"
    /\ lres.out.changes # <<>>
    /\ \E i \in 1..Len(ln.cells) : ln.cells[i] # Unknown
    /\ Cardinality({i \in 1..Len(ln.cells) : ln.cells[i] = Unknown}) > Len(lres.out.changes)

\* C4: Line::verify returns true if and only if some assignment of the
\* Unknown cells has maximal runs of Filled of exactly the hinted lengths, in
\* order; it returns false whenever the hints with their gaps need more cells
\* than the line has.
C4_VerifyIffCompletionExists ==
    lres.op = "verify" =>
        /\ lres.ok <=> ValidCompletions(ln.hints, ln.cells) # {}
        /\ HintsNeed(ln.hints) > Len(ln.cells) => ~lres.ok

\* C4 witness: verify rejected a line whose hints fit its length, with two
\* hints and both known and Unknown cells.
C4_Witness ==
    /\ lres.op = "verify"
    /\ ~lres.ok
    /\ Len(ln.hints) = 2
    /\ HintsNeed(ln.hints) <= Len(ln.cells)
    /\ \E i \in 1..Len(ln.cells) : ln.cells[i] = Unknown
    /\ \E i \in 1..Len(ln.cells) : ln.cells[i] = Filled

\* C5: every Line::solve call made through the solver's line cache returns
\* what Line::do_solve computes for that line's own type, index, hints and
\* cells.
C5_CacheIsTransparent ==
    solved_line # NoCall => solved_line.sol = do_solve_line(solved_line.line)

\* C6: whenever an entry point returns Unsolved(changes), every grid that
\* satisfies all hints of the puzzle has, at each assumption's cell, the
\* assumption's value.
C6_UnsolvedChangesAreForced ==
    (Done /\ result.tag = "Unsolved") =>
        \A i \in 1..Len(result.changes) : \A g \in PuzzleSolutions :
            FieldGet(g, result.changes[i].coords) = result.changes[i].val

\* C7: an entry point returns Controversial only if no grid satisfies every
\* hint of the puzzle.
C7_ControversialOnlyWithoutSolution ==
    (Done /\ result.tag = "Controversial") => PuzzleSolutions = {}

\* C8: on row_hints = [[2]], col_hints = [[1],[1],[1]], solve_by_lines and
\* solve return Controversial.
C8_TwoInARowIsControversial ==
    (/\ Done
     /\ row_hints = <<<<2>>>>
     /\ col_hints = <<<<1>>, <<1>>, <<1>>>>
     /\ algorithm \in {"solve_by_lines", "solve"}) =>
        result.tag = "Controversial"

C10_FindOneSolvedWheneverFindAllIs ==
    (/\ Done
     /\ earlier.algorithm = "solve" /\ earlier.find_all
     /\ earlier.result.tag = "Solved" /\ earlier.result.fields # {}
     /\ algorithm = "solve" /\ ~find_all) =>
        (result.tag = "Solved" /\ result.fields # {})

\* The grid with the given rows (its columns are the transposed rows).
GridOf(rows) ==
    [rows |-> rows,
     cols |-> [c \in 1..Len(rows[1]) |-> [r \in 1..Len(rows) |-> rows[r][c]]]]

\* C11: on row_hints [[1],[1]], col_hints [[1],[1]], max_depth 3, solve with
\* find_all = false returns, on every run, Solved with exactly one grid: the
\* one of the first trial, cell (0,0) Filled (rows '#.' and '.#').
C11_FindOneFollowsTrialOrder ==
    (/\ Done
     /\ algorithm = "solve" /\ ~find_all
     /\ max_depth = SomeDepth(3)
     /\ row_hints = <<<<1>>, <<1>>>>
     /\ col_hints = <<<<1>>, <<1>>>>) =>
        result = Solved({GridOf(<<<<Filled, Empty>>, <<Empty, Filled>>>>)})

\* C11 witness: solve with find_all = false has returned on that puzzle with
\* max_depth 3.
C11_Witness ==
    /\ Done
    /\ algorithm = "solve" /\ ~find_all
    /\ max_depth = SomeDepth(3)
    /\ row_hints = <<<<1>>, <<1>>>>
    /\ col_hints = <<<<1>>, <<1>>>>
    /\ result.tag = "Solved"

\* C12: whenever Line::solve returns Some(changes) on a line, Line::solve on
\* the same line with the changes applied to its cells returns Some of an
\* empty list.
C12_LineSolveIsIdempotent ==
    (solved_line # NoCall /\ solved_line.sol.tag = "Some") =>
        LineSolve([solved_line.line EXCEPT !.cells = solved_line.after], line_cache).sol
            = SomeSol(<<>>)

\* A do_solve_by_lines call made by solve_by_lines or by do_solve has just
\* returned `ret` to its caller; HarnessArg is the field it was called on.
HarnessJustReturned ==
    /\ hs.pc = "idle"
    /\ ret.tag # "None"
    /\ \/ stack = <<>> /\ algorithm = "solve_by_lines"
       \/ stack # <<>> /\ Top.fn = "do_solve" /\ Top.pc \in {"by_lines", "flip", "final"}

HarnessArg == IF stack = <<>> THEN create_field ELSE Top.field

\* The row and column lines of a field.
LinesOf(field) ==
    {row_line(field, r) : r \in 0..(nrows - 1)} \cup {col_line(field, c) : c \in 0..(ncols - 1)}

\* C13: if do_solve_by_lines on field F returns Unsolved(changes), then in F
\* with changes applied every row and column is valid and yields no forced
\* cell (a propagation fixed point).
C13_UnsolvedIsFixedPoint ==
    (HarnessJustReturned /\ ret.tag = "Unsolved") =>
        \A line \in LinesOf(ApplyAll(ret.changes, HarnessArg)) :
            do_solve_line(line) = SomeSol(<<>>)

\* A do_solve_by_lines call made by solve_by_lines or by do_solve is running.
HarnessRunning ==
    /\ hs.pc # "idle"
    /\ \/ stack = <<>> /\ algorithm = "solve_by_lines"
       \/ stack # <<>> /\ Top.fn = "do_solve"

\* `field` holds every known cell of `old` with the same value.
KeepsKnownCells(old, field) ==
    \A k \in 0..(NumCoords - 1) :
        FieldGet(old, CoordsAt(k)) # Unknown =>
            FieldGet(field, CoordsAt(k)) = FieldGet(old, CoordsAt(k))

\* Every assumption of `changes` sets a cell that is Unknown in `old` to
\* Filled or Empty, and no two of them set the same cell.
OnlyFillsUnknown(old, changes) ==
    /\ \A i \in 1..Len(changes) :
          /\ FieldGet(old, changes[i].coords) = Unknown
          /\ changes[i].val \in {Filled, Empty}
    /\ \A i, j \in 1..Len(changes) : changes[i].coords = changes[j].coords => i = j

\* C14: the line harness is monotone: every assumption it applies or returns
\* targets a cell that is Unknown at that moment and sets it to Filled or
\* Empty, and no cell that is known in the input field has another value in
\* the working field, in a returned change or in a returned Solved field.
C14_HarnessIsMonotone ==
    /\ HarnessRunning =>
          /\ KeepsKnownCells(HarnessArg, hs.field)
          /\ OnlyFillsUnknown(HarnessArg, hs.all_changes)
    /\ HarnessJustReturned =>
          /\ OnlyFillsUnknown(HarnessArg, ret.changes)
          /\ \A f \in ret.fields : KeepsKnownCells(HarnessArg, f)

\* ------------------------------------------- reference semantics of a graph
\* The transitive closure of a set of pairs.
RECURSIVE Closure(_)
Closure(R) ==
    LET joined == R \cup {<<pq[1][1], pq[2][2]>> : pq \in {x \in R \X R : x[1][2] = x[2][1]}}
    IN  IF joined = R THEN R ELSE Closure(joined)

\* There is a path from a to b along the pairs passed to set_reachable.
EdgePath(a, b) == <<a, b>> \in Closure(edges)

\* The nodes mentioned in a call of set_reachable.
Mentioned == {e[1] : e \in edges} \cup {e[2] : e \in edges}

Interned == SeqToSet(graph.nodes)

\* C15: after any sequence of set_reachable calls, for all interned nodes a
\* and b: b is in out(a) iff a is in in(b), every node is in its own in and
\* out sets, and is_reachable(a, b) holds exactly when b = a or there is a
\* path from a to b along the pairs passed to set_reachable; the interned
\* nodes are the mentioned ones, each interned once.
C15_ReachabilityIsTheClosure ==
    LET n == Len(graph.nodes)
    IN  /\ Len(graph.reachability_in) = n
        /\ Len(graph.reachability_out) = n
        /\ Interned = Mentioned
        /\ Cardinality(Interned) = n
        /\ \A i \in 1..n :
              /\ i \in graph.reachability_in[i]
              /\ i \in graph.reachability_out[i]
              /\ graph.reachability_in[i] \subseteq 1..n
              /\ graph.reachability_out[i] \subseteq 1..n
              /\ \A j \in 1..n :
                    j \in graph.reachability_out[i] <=> i \in graph.reachability_in[j]
        /\ \A a \in Interned : \A b \in Interned :
              is_reachable(graph, a, b) <=> (a = b \/ EdgePath(a, b))

\* C15 witness: three interned nodes, one reachable from another only through
\* the third, and a pair that is not reachable.
C15_Witness ==
    /\ Len(graph.nodes) = 3
    /\ \E a \in Interned : \E b \in Interned :
          /\ a # b
          /\ <<a, b>> \notin edges
          /\ is_reachable(graph, a, b)
          /\ ~is_reachable(graph, b, a)

\* C16: strongly_connected_components returns a partition of the interned
\* nodes: every node is in exactly one component, and two nodes are in the
\* same component iff each is reachable from the other.
C16_SccsPartitionTheNodes ==
    LET sccs == strongly_connected_components(graph)
        same(a, b) == (a = b \/ EdgePath(a, b)) /\ (a = b \/ EdgePath(b, a))
    IN  /\ \A k \in 1..Len(sccs) : sccs[k] # {} /\ sccs[k] \subseteq Interned
        /\ \A a \in Interned :
              Cardinality({k \in 1..Len(sccs) : a \in sccs[k]}) = 1
        /\ \A a \in Interned : \A b \in Interned :
              (\E k \in 1..Len(sccs) : a \in sccs[k] /\ b \in sccs[k]) <=> same(a, b)

\* C16 witness: the graph has a component of two nodes and a second component.
C16_Witness ==
    LET sccs == strongly_connected_components(graph)
    IN  /\ Len(sccs) >= 2
        /\ \E k \in 1..Len(sccs) : Cardinality(sccs[k]) = 2

\* C17: a lookup of a node that was never passed to set_reachable interns
\* nothing and is no error: get_reachable returns None, is_reachable returns
\* false when either argument is such a node, and the graph is as before.
C17_LookupOfUnknownNode ==
    lookup.done =>
        /\ graph = lookup.before
        /\ lookup.a \notin Mentioned => (~lookup.from_a.some /\ ~lookup.reachable)
        /\ lookup.b \notin Mentioned => ~lookup.reachable
        /\ lookup.a \in Mentioned => lookup.from_a.some

\* C17 witness: a lookup of a pair (x, x) with x never mentioned, on a graph
\* that holds other nodes.
C17_Witness ==
    /\ lookup.done
    /\ graph.nodes # <<>>
    /\ lookup.a = lookup.b
    /\ lookup.a \notin Mentioned

\* ------------------------------------------------- field specification
\* The Field on its own: Field::new on a small shape, then any sequence of
\* Field::set, Assumption::apply and Assumption::unapply with in-range
\* coordinates.  cells_set keeps, beside the field, the value last written at
\* each coordinate and the last operation.
FieldCoords(nr, nc) == (0..(nr - 1)) \X (0..(nc - 1))

InitField ==
    /\ \E nr \in 1..MaxFieldRows : \E nc \in 1..MaxFieldCols :
          /\ fld = FieldNew(nr, nc)
          /\ cells_set = [nrows |-> nr, ncols |-> nc,
                          cell |-> [rc \in FieldCoords(nr, nc) |-> Unknown],
                          op |-> "new", coords |-> <<0, 0>>]
    /\ row_hints = <<>> /\ col_hints = <<>>
    /\ max_depth = NoDepth /\ find_all = FALSE
    /\ line_cache = <<>> /\ algorithm = "none"
    /\ stack = <<>> /\ hs = HarnessIdle
    /\ ret = NoRet /\ result = NoRet
    /\ solved_line = NoCall
    /\ earlier = NoEarlier
    /\ ln = LineIdle /\ lres = Idle
    /\ graph = ReachNew /\ edges = {} /\ lookup = NoLookup
    /\ stored_solutions = {}

\* field.set(coords, val)
FieldDoSet ==
    /\ \E rc \in FieldCoords(cells_set.nrows, cells_set.ncols) :
          \E val \in {Unknown, Filled, Empty} :
             /\ fld' = FieldSet(fld, rc, val)
             /\ cells_set' = [cells_set EXCEPT !.cell[rc] = val,
                                               !.op = "set", !.coords = rc]
    /\ UNCHANGED <<solver_vars, earlier, line_vars, graph_vars, stored_solutions>>

\* ass.apply(&mut field)
FieldDoApply ==
    /\ \E rc \in FieldCoords(cells_set.nrows, cells_set.ncols) :
          \E k \in 1..Len(KNOWN) :
             LET ass == Assumption(rc, KNOWN[k]) IN
             /\ fld' = AssApply(ass, fld)
             /\ cells_set' = [cells_set EXCEPT !.cell[ass.coords] = ass.val,
                                               !.op = "apply", !.coords = ass.coords]
    /\ UNCHANGED <<solver_vars, earlier, line_vars, graph_vars, stored_solutions>>

\* ass.unapply(&mut field)
FieldDoUnapply ==
    /\ \E rc \in FieldCoords(cells_set.nrows, cells_set.ncols) :
          \E k \in 1..Len(KNOWN) :
             LET ass == Assumption(rc, KNOWN[k]) IN
             /\ fld' = AssUnapply(ass, fld)
             /\ cells_set' = [cells_set EXCEPT !.cell[ass.coords] = Unknown,
                                               !.op = "unapply", !.coords = ass.coords]
    /\ UNCHANGED <<solver_vars, earlier, line_vars, graph_vars, stored_solutions>>

NextField == FieldDoSet \/ FieldDoApply \/ FieldDoUnapply

SpecField == InitField /\ [][NextField]_vars

\* C18: after Field::new and any sequence of set, apply and unapply calls
\* with in-range coordinates, row(r)[c], col(c)[r] and get((r, c)) are the
\* same value for every (r, c), and that value is the one last written at
\* (r, c) (Unknown if none was): a set at one cell changes no other cell.
C18_MirrorsAgree ==
    (cells_set # <<>>) =>
        \A rc \in FieldCoords(cells_set.nrows, cells_set.ncols) :
            /\ FieldRow(fld, rc[1])[rc[2] + 1] = FieldCol(fld, rc[2])[rc[1] + 1]
            /\ FieldRow(fld, rc[1])[rc[2] + 1] = FieldGet(fld, rc)
            /\ FieldGet(fld, rc) = cells_set.cell[rc]

\* A 2 x 2 field after an unapply, with two other cells still known and of
\* different values.
C18_Witness ==
    /\ cells_set # <<>>
    /\ cells_set.nrows = 2 /\ cells_set.ncols = 2
    /\ cells_set.op = "unapply"
    /\ FieldGet(fld, <<0, 1>>) = Filled
    /\ FieldGet(fld, <<1, 0>>) = Empty
    /\ FieldCol(fld, 1)[1] = Filled
    /\ FieldCol(fld, 0)[2] = Empty

\* The do_solve frames of the call stack.
DoSolveFrames == {i \in 1..Len(stack) : stack[i].fn = "do_solve"}

\* C19: in the recursive case-split, once a trial value of a cell has
\* returned Controversial (the other value not having done so) and the
\* inverted assumption has been applied, the cell holds the inverted value in
\* the call's working field for as long as the call runs.
C19_InvertedValueStays ==
    \A i \in DoSolveFrames :
        \A ass \in stack[i].forced :
            FieldGet(stack[i].field, ass.coords) = ass.val

\* The outermost call of solve or solve_2sat returns Unsolved in this step.
OutermostReturnsUnsolved ==
    /\ Len(stack) = 1 /\ stack' = <<>>
    /\ Top.fn \in {"do_solve", "do_solve_2sat"}
    /\ ret'.tag = "Unsolved"

\* Every known cell of field has the same value after changes are applied
\* to a blank field.
Reproduces(changes, field) ==
    LET applied == ApplyAll(changes, create_field)
    IN  \A r \in 0..(nrows - 1) : \A c \in 0..(ncols - 1) :
            FieldGet(field, <<r, c>>) # Unknown =>
                FieldGet(applied, <<r, c>>) = FieldGet(field, <<r, c>>)

\* C20: whenever solve or solve_2sat returns Unsolved(changes), applying
\* changes to a blank field reproduces every known cell of the solver's
\* final working field, and every inverted assumption applied after a
\* contradicted trial is itself in changes.
C20_UnsolvedChangesAreComplete ==
    [][OutermostReturnsUnsolved =>
          /\ Reproduces(ret'.changes, Top.field)
          /\ Top.fn = "do_solve" =>
                \A ass \in Top.forced :
                    \E i \in 1..Len(ret'.changes) : ret'.changes[i] = ass]_vars

\* ---------------------------------- impossible-assumption specification
\* A ReachabilityGraph<Assumption> on its own: ReachabilityGraph::new, then
\* any sequence of set_reachable calls on assumptions of a few cells, with
\* get_impossible called in between.
ImpNodes == {Assumption(<<0, c>>, val) : c \in 0..(MaxImpCells - 1), val \in {Filled, Empty}}

InitImpossible == InitGraph

ImpSetReachable ==
    /\ \E a \in ImpNodes : \E b \in ImpNodes \ {a} :
          /\ Cardinality(edges \cup {<<a, b>>}) <= MaxImpEdges
          /\ graph' = set_reachable(graph, a, b)
          /\ edges' = edges \cup {<<a, b>>}
    /\ lookup' = NoLookup
    /\ UNCHANGED <<solver_vars, earlier, line_vars, field_vars, stored_solutions>>

ImpGetImpossible ==
    /\ \E rep \in Representatives(graph) :
          lookup' = [done |-> TRUE, impossible |-> get_impossible(graph, rep),
                     before |-> graph]
    /\ UNCHANGED <<graph, edges>>
    /\ UNCHANGED <<solver_vars, earlier, line_vars, field_vars, stored_solutions>>

NextImpossible == ImpSetReachable \/ ImpGetImpossible

SpecImpossible == InitImpossible /\ [][NextImpossible]_vars

\* The nodes reachable from a along the pairs passed to set_reachable, a
\* itself included.
ForwardReachable(a) == {a} \cup {b \in Mentioned : EdgePath(a, b)}

\* Two distinct assumptions on one cell are reachable from a.
ReachesBothValues(a) ==
    \E x \in ForwardReachable(a) : \E y \in ForwardReachable(a) :
        x # y /\ x.coords = y.coords

\* C21: get_impossible returns exactly the interned assumptions whose
\* forward-reachable set holds two distinct assumptions with the same
\* coords, and that is also the set of interned assumptions that
\* is_impossible accepts one by one, whichever member of a component is
\* tested.
C21_GetImpossibleIsExact ==
    lookup.done =>
        /\ lookup.impossible = {a \in Mentioned : ReachesBothValues(a)}
        /\ lookup.impossible = {a \in SeqToNodes(graph) : is_impossible(graph, a)}

\* get_impossible has answered with some but not all nodes on a graph with a
\* component of two or more nodes.
C21_Witness ==
    /\ lookup.done
    /\ lookup.impossible # {}
    /\ lookup.impossible # SeqToNodes(graph)
    /\ \E k \in 1..Len(strongly_connected_components(graph)) :
          Cardinality(strongly_connected_components(graph)[k]) >= 2

\* The do_2sat_step frames of the call stack.
StepFrames == {i \in 1..Len(stack) : stack[i].fn = "do_2sat_step"}

\* The index pair (i, j) comes before the position (a1, a2) of the pair loops.
PairBefore(i, j, a1, a2) == i < a1 \/ (i = a1 /\ j < a2)

\* Both implications of a contradictory pair are reachable in the frame's
\* graph.
BothImplied(f, i, j) ==
    /\ is_reachable(f.reach, AssumptionAt(i), AssInvert(AssumptionAt(j)))
    /\ is_reachable(f.reach, AssumptionAt(j), AssInvert(AssumptionAt(i)))

\* The index pairs the sweep has to deal with on the frame's field: two
\* Unknown cells, the second with the smaller coords.
SweepPairs(f) ==
    {p \in (0..(NumAssumptions - 1)) \X (0..(NumAssumptions - 1)) :
        /\ ~CoordsLe(AssumptionAt(p[1]).coords, AssumptionAt(p[2]).coords)
        /\ FieldGet(f.field, AssumptionAt(p[1]).coords) = Unknown
        /\ FieldGet(f.field, AssumptionAt(p[2]).coords) = Unknown}

\* C22: in a 2-SAT step every pair whose refinement returned Controversial
\* has both implications a1 -> not a2 and a2 -> not a1 reachable in the
\* step's graph, and every pair of assumptions on two distinct Unknown cells
\* that the sweep has passed was tried, or a1 -> not a2 is reachable; at the
\* end of the sweep that covers every such pair.
C22_PairsTriedOrContradictory ==
    \A k \in StepFrames :
        LET f == stack[k]
        IN  /\ \A p \in f.contra : BothImplied(f, p[1], p[2])
            /\ (f.pc = "pairs" \/ (f.pc = "impossible" /\ f.all_changes = <<>>)) =>
                  \A p \in SweepPairs(f) :
                      PairBefore(p[1], p[2], f.a1, f.a2) =>
                          \/ p \in f.tried
                          \/ is_reachable(f.reach, AssumptionAt(p[1]),
                                          AssInvert(AssumptionAt(p[2])))

\* A sweep has ended with a pair found contradictory and a pair that was
\* skipped because its implication was already reachable.
C22_Witness ==
    \E k \in StepFrames :
        /\ stack[k].pc = "impossible" /\ stack[k].all_changes = <<>>
        /\ stack[k].contra # {}
        /\ SweepPairs(stack[k]) \ stack[k].tried # {}

\* The impossible assumptions of a step's graph: the interned assumptions
\* from which both values of some cell are reachable.
ImpossibleOf(f) ==
    LET g == f.reach
        both(i) == \E j \in g.reachability_out[i] : \E k \in g.reachability_out[i] :
                      j # k /\ g.nodes[j].coords = g.nodes[k].coords
    IN  {g.nodes[i] : i \in {n \in 1..Len(g.nodes) : both(n)}}

\* The impossible assumptions the loop of apply_impossible_matches has not
\* visited yet.
NotVisited(f) == f.left \cup UNION {f.sccs[k] : k \in 1..Len(f.sccs)}

\* apply_impossible_matches is running in frame f.
InImpossible(f) == f.fn = "do_2sat_step" /\ f.pc \in {"impossible", "imp_by_lines"}

\* While apply_impossible_matches runs: every impossible assumption visited
\* so far has its inverse in the cell and in all_changes, and the harness is
\* only called when no cell has both of its values impossible.
ImpossibleForced(f, imp) ==
    /\ \A a \in imp \ NotVisited(f) :
          /\ FieldGet(f.field, a.coords) = invert(a.val)
          /\ \E i \in 1..Len(f.all_changes) : f.all_changes[i] = AssInvert(a)
    /\ f.pc = "imp_by_lines" =>
          /\ NotVisited(f) = {}
          /\ \A a \in imp : AssInvert(a) \notin imp

\* What a return of apply_impossible_matches with outcome r has to satisfy.
ImpossibleReturn(f, imp, r) ==
    /\ r.tag = "Unsolved" =>
          \A a \in imp : \E i \in 1..Len(r.changes) : r.changes[i] = AssInvert(a)
    /\ (\E a \in imp : FieldGet(f.field, a.coords) = a.val) => r.tag = "Controversial"
    /\ (\E a \in imp : AssInvert(a) \in imp) => r.tag = "Controversial"

\* C23: apply_impossible_matches forces the inverse of every impossible
\* assumption and returns it among the changes of an Unsolved result; it
\* returns Controversial when an impossible assumption's cell holds the
\* impossible value, and always does when both values of a cell are
\* impossible, in whatever order the impossible assumptions are visited.
C23_ImpossibleMatchesAreForced ==
    [][(stack # <<>> /\ InImpossible(Top)) =>
          LET imp == ImpossibleOf(Top)
          IN  /\ ImpossibleForced(Top, imp)
              /\ (Len(stack') = Len(stack) - 1) => ImpossibleReturn(Top, imp, ret')]_vars

\* apply_impossible_matches has forced a cell and now visits the impossible
\* assumption that the cell's new value contradicts.
C23_Witness ==
    /\ stack # <<>> /\ InImpossible(Top) /\ Top.pc = "impossible"
    /\ Top.all_changes # <<>>
    /\ \E a \in Top.left :
          /\ FieldGet(Top.field, a.coords) = a.val
          /\ AssInvert(a) \in ImpossibleOf(Top)

\* The do_solve frames that wait for the recursive call on a trial value:
\* each has one guessed assumption applied to the field it passed down.
TrialFrames == {i \in DoSolveFrames : stack[i].pc = "trial"}

\* The guessed assumptions that are applied at the moment.
TrialAssumptions ==
    {Assumption(CoordsAt(stack[i].ci), KNOWN[stack[i].vi]) : i \in TrialFrames}

\* C24: with max_depth = Some(k), while solve runs the line harness its
\* field carries at most k guessed assumptions at once.
C24_HarnessUnderAtMostKGuesses ==
    (algorithm = "solve" /\ max_depth.some /\ HarnessRunning) =>
        Cardinality(TrialAssumptions) <= max_depth.d

\* The harness runs under two guesses with max_depth = Some(2), both
\* guessed values being in its field.
C24_Witness ==
    /\ algorithm = "solve" /\ max_depth = SomeDepth(2) /\ HarnessRunning
    /\ Cardinality(TrialAssumptions) = 2
    /\ \A ass \in TrialAssumptions : FieldGet(hs.field, ass.coords) = ass.val

\* ------------------------------------- the depth-bounded solver: its lines
\* src/solver/nonogram.rs and src/solver/nonogram/: the solver whose do_solve
\* deepens iteratively.  Its Field and Assumption behave as the ones above
\* (the mirrors are flat vectors there); its Line carries the index of the
\* last Filled cell through verify.
NoIdx == [some |-> FALSE, v |-> 0]
SomeIdx(v) == [some |-> TRUE, v |-> v]

\* opt_max
opt_max(a, b) == IF a.some /\ a.v > b THEN a.v ELSE b

\* Line::get_last_filled
get_last_filled(cells) ==
    LET filled == {i \in 1..Len(cells) : cells[i] = Filled}
    IN  IF filled = {} THEN NoIdx
        ELSE SomeIdx((CHOOSE i \in filled : \A j \in filled : j <= i) - 1)

\* Line::do_verify(hint_idx, cells_offset, last_filled) and the body of its
\* `for (start, &val)` loop from `start` on.
RECURSIVE do_verify_last_filled(_, _, _, _, _)
RECURSIVE VerifyLoopLastFilled(_, _, _, _, _, _)
VerifyLoopLastFilled(hints, cells, hint_idx, cells_offset, last_filled, start) ==
    LET current_hint == hints[hint_idx + 1]
        size == Len(cells) - cells_offset
        end == start + current_hint
        at(i) == cells[cells_offset + i + 1]
    IN  IF start >= size - current_hint + 1 THEN FALSE
        ELSE IF /\ \A i \in start..(end - 1) : at(i) # Empty
                /\ (end = size \/ at(end) # Filled)
                /\ do_verify_last_filled(hints, cells, hint_idx + 1,
                                         cells_offset + end + 1, last_filled)
             THEN TRUE
        ELSE IF at(start) = Filled THEN FALSE
        ELSE VerifyLoopLastFilled(hints, cells, hint_idx, cells_offset, last_filled, start + 1)

do_verify_last_filled(hints, cells, hint_idx, cells_offset, last_filled) ==
    IF cells_offset >= Len(cells) THEN hint_idx = Len(hints)
    ELSE IF hint_idx = Len(hints)
         THEN (~last_filled.some) \/ cells_offset > last_filled.v
    ELSE IF hints[hint_idx + 1] > Len(cells) - cells_offset THEN FALSE
    ELSE VerifyLoopLastFilled(hints, cells, hint_idx, cells_offset, last_filled, 0)

\* Line::verify(last_filled)
verify_last_filled(hints, cells, last_filled) ==
    do_verify_last_filled(hints, cells, 0, 0, last_filled)

\* The 'idxs loop of Line::do_solve from index idx on.
RECURSIVE SolveLoopLastFilled(_, _, _, _, _)
SolveLoopLastFilled(line, cells, idx, last_filled, acc) ==
    IF idx >= Len(cells) THEN acc
    ELSE IF cells[idx + 1] # Unknown
    THEN SolveLoopLastFilled(line, cells, idx + 1, last_filled, acc)
    ELSE LET tryF == [cells EXCEPT ![idx + 1] = Filled]
             tryE == [cells EXCEPT ![idx + 1] = Empty]
             coords == get_coords(line.line_type, line.line_idx, idx)
         IN  IF ~verify_last_filled(line.hints, tryF, SomeIdx(opt_max(last_filled, idx)))
             THEN SolveLoopLastFilled(line, tryE, idx + 1, last_filled,
                                      Append(acc, Assumption(coords, Empty)))
             ELSE IF ~verify_last_filled(line.hints, tryE, last_filled)
             THEN SolveLoopLastFilled(line, tryF, idx + 1,
                                      SomeIdx(opt_max(last_filled, idx)),
                                      Append(acc, Assumption(coords, Filled)))
             ELSE SolveLoopLastFilled(line, cells, idx + 1, last_filled, acc)

\* Line::do_solve; Line::solve returns the same value through the line's own
\* cache, whose key is the line's cells.
do_solve_line_last_filled(line) ==
    IF ~verify_last_filled(line.hints, line.cells, get_last_filled(line.cells)) THEN NoneSol
    ELSE SomeSol(SolveLoopLastFilled(line, line.cells, 0, get_last_filled(line.cells), <<>>))

\* ----------------------------------- the depth-bounded solver: its harness
\* Solver::line
line_of(field, line_type, line_idx) ==
    IF line_type = Row THEN row_line(field, line_idx) ELSE col_line(field, line_idx)

\* LineType::other
other_type(line_type) == IF line_type = Row THEN Col ELSE Row

\* u8 `+= 1` and `-= 1`
U8Inc(v) == (v + 1) % 256
U8Dec(v) == (v + 255) % 256

\* Solver::do_solve_by_lines_step from line index line_idx on: the lines
\* whose counter in line_changes is positive are solved in order.  None is
\* ok = FALSE.
RECURSIVE LinesStep(_, _, _, _, _)
LinesStep(field, line_type, line_changes, line_idx, all_changes) ==
    IF line_idx >= Len(line_changes)
    THEN [ok |-> TRUE, field |-> field, changes |-> all_changes]
    ELSE IF line_changes[line_idx + 1] = 0
    THEN LinesStep(field, line_type, line_changes, line_idx + 1, all_changes)
    ELSE LET sol == do_solve_line_last_filled(line_of(field, line_type, line_idx))
         IN  IF sol.tag = "None"
             THEN [ok |-> FALSE, field |-> field, changes |-> <<>>]
             ELSE LinesStep(ApplyAll(sol.changes, field), line_type, line_changes,
                            line_idx + 1, all_changes \o sol.changes)

do_solve_by_lines_step(field, line_type, line_changes) ==
    LinesStep(field, line_type, line_changes, 0, <<>>)

\* changed_idxs after a step: one count per change on the other line type.
RECURSIVE CountChanges(_, _, _)
CountChanges(counts, changes, line_type) ==
    IF changes = <<>> THEN counts
    ELSE LET idx == IF line_type = Row THEN changes[1].coords[1] ELSE changes[1].coords[2]
         IN  CountChanges([counts EXCEPT ![idx + 1] = U8Inc(@)], Tail(changes), line_type)

\* The loop of the depth-bounded do_solve_by_lines.  The outcome carries the
\* field a Solved outcome stores.
RECURSIVE ByLinesLoop(_, _, _, _)
ByLinesLoop(field, line_type, changed_idxs, all_changes) ==
    LET step == do_solve_by_lines_step(field, line_type, changed_idxs)
        len == IF other_type(line_type) = Row THEN nrows ELSE ncols
    IN  IF ~step.ok THEN [tag |-> "Controversial", changes |-> <<>>, field |-> field]
        ELSE IF step.changes = <<>>
        THEN IF is_solved(step.field)
             THEN [tag |-> "Solved", changes |-> <<>>, field |-> step.field]
             ELSE [tag |-> "Unsolved", changes |-> all_changes, field |-> step.field]
        ELSE ByLinesLoop(step.field, other_type(line_type),
                         CountChanges([i \in 1..len |-> 0], step.changes,
                                      other_type(line_type)),
                         all_changes \o step.changes)

\* The depth-bounded Solver::do_solve_by_lines(field, changed_rows, changed_cols)
do_solve_by_lines_changed(field, changed_rows, changed_cols) ==
    LET first == do_solve_by_lines_step(field, Row, changed_rows)
    IN  IF ~first.ok THEN [tag |-> "Controversial", changes |-> <<>>, field |-> field]
        ELSE ByLinesLoop(first.field, Col, changed_cols, first.changes)

\* ------------------------------ the depth-bounded solver: do_solve, do_step
\* InternalSolution::Solved carries nothing: the solutions are in
\* Solver.solutions.
SolvedStored == [tag |-> "Solved", changes |-> <<>>, fields |-> {}]

\* A do_solve activation: its arguments and locals, the `for depth` counter,
\* and two records of what the loop did: stepped, the (depth, field) pairs
\* for which do_step returned Unsolved with no change, unharnessed, set
\* while changes of do_step are applied and the harness has not run on them,
\* and restarts, the number of times `continue 'outer` was taken; arg is the
\* field the call was given.
BoundedFrame(field, depth_limit, changed_rows, changed_cols) ==
    [fn |-> "do_solve_bounded", pc |-> "outer", field |-> field,
     max_depth |-> depth_limit, all_changes |-> <<>>,
     changed_rows |-> changed_rows, changed_cols |-> changed_cols,
     depth |-> 0, stepped |-> {}, unharnessed |-> FALSE, restarts |-> 0,
     arg |-> field]

\* A do_step activation.
DoStepFrame(field, depth_limit) ==
    [fn |-> "do_step", pc |-> "sweep", field |-> field, max_depth |-> depth_limit,
     all_changes |-> <<>>, has_unsolved |-> FALSE, has_controversy |-> FALSE,
     changed_rows |-> [i \in 1..nrows |-> 0], changed_cols |-> [i \in 1..ncols |-> 0],
     ci |-> 0, vi |-> 1]

\* Field::store_solution: the solved field joins the solver's solutions.
store_solution(field, solutions_so_far) == solutions_so_far \cup {field}

bounded_unchanged ==
    <<row_hints, col_hints, max_depth, find_all, line_cache, algorithm, result,
      solved_line, earlier, line_vars, graph_vars, field_vars>>

\* Solver::solve of the depth-bounded solver: do_solve on a blank field with
\* every row and column marked changed.
solve_bounded ==
    /\ algorithm = "none"
    /\ algorithm' = "solve_bounded"
    /\ stack' = <<BoundedFrame(create_field, max_depth.d,
                               [i \in 1..nrows |-> 1], [i \in 1..ncols |-> 1])>>
    /\ UNCHANGED <<row_hints, col_hints, max_depth, find_all, line_cache, hs, ret,
                   result, solved_line>>
    /\ UNCHANGED other_vars

\* 'outer: loop: the harness runs on the field; Controversial and Solved
\* return, Unsolved returns its changes at max_depth 0 and else applies them,
\* clears the changed counters and starts `for depth in 0..max_depth`.
BoundedByLines ==
    /\ stack # <<>> /\ Top.fn = "do_solve_bounded" /\ Top.pc = "outer"
    /\ LET by_lines == do_solve_by_lines_changed(Top.field, Top.changed_rows,
                                                 Top.changed_cols)
       IN  /\ stored_solutions' = IF by_lines.tag = "Solved"
                                  THEN store_solution(by_lines.field, stored_solutions)
                                  ELSE stored_solutions
           /\ CASE by_lines.tag = "Controversial" -> Return(Controversial)
                [] by_lines.tag = "Solved" -> Return(SolvedStored)
                [] by_lines.tag = "Unsolved" ->
                     IF Top.max_depth = 0
                     THEN Return(Unsolved(by_lines.changes))
                     ELSE Goto([Top EXCEPT
                                  !.pc = "for", !.depth = 0, !.unharnessed = FALSE,
                                  !.field = ApplyAll(by_lines.changes, Top.field),
                                  !.all_changes = Top.all_changes \o by_lines.changes,
                                  !.changed_rows = [i \in 1..nrows |-> 0],
                                  !.changed_cols = [i \in 1..ncols |-> 0]])
    /\ UNCHANGED bounded_unchanged

\* for depth in 0..max_depth: do_step(&field, depth); after the last depth
\* the call returns Unsolved(all_changes).
BoundedFor ==
    /\ stack # <<>> /\ Top.fn = "do_solve_bounded" /\ Top.pc = "for"
    /\ IF Top.depth >= Top.max_depth
       THEN Return(Unsolved(Top.all_changes))
       ELSE Call([Top EXCEPT !.pc = "stepped"], DoStepFrame(Top.field, Top.depth))
    /\ UNCHANGED bounded_unchanged
    /\ UNCHANGED stored_solutions

\* The Unsolved arm of `match by_step` that goes on to the next depth even
\* when do_step returned changes.
after_step_no_restart(f, changes) ==
    [f EXCEPT !.pc = "for", !.depth = f.depth + 1,
              !.field = ApplyAll(changes, f.field),
              !.all_changes = f.all_changes \o changes,
              !.changed_rows = CountChanges(f.changed_rows, changes, Row),
              !.changed_cols = CountChanges(f.changed_cols, changes, Col),
              !.stepped = IF changes = <<>> THEN f.stepped \cup {<<f.depth, f.field>>}
                          ELSE f.stepped,
              !.unharnessed = changes # <<>>]

\* The Unsolved arm of `match by_step`: changes are applied and counted and
\* the outer loop starts over (continue 'outer); without changes the next
\* depth follows.
after_step(f, changes) ==
    IF changes # <<>>
    THEN [f EXCEPT !.pc = "outer",
                   !.field = ApplyAll(changes, f.field),
                   !.all_changes = f.all_changes \o changes,
                   !.changed_rows = CountChanges(f.changed_rows, changes, Row),
                   !.changed_cols = CountChanges(f.changed_cols, changes, Col),
                   !.unharnessed = TRUE, !.restarts = f.restarts + 1]
    ELSE [f EXCEPT !.pc = "for", !.depth = f.depth + 1,
                   !.stepped = f.stepped \cup {<<f.depth, f.field>>}]

\* match by_step
BoundedStepped ==
    /\ stack # <<>> /\ Top.fn = "do_solve_bounded" /\ Top.pc = "stepped"
    /\ Returned
    /\ IF ret.tag \in {"Solved", "Controversial"}
       THEN Return(ret)
       ELSE Goto(after_step(Top, ret.changes))
    /\ UNCHANGED bounded_unchanged
    /\ UNCHANGED stored_solutions

\* do_step: for coords in self.iter_coords(); after the last cell Solved when
\* a solution is stored and no branch was inconclusive under find_all, else
\* Unsolved(all_changes).
DoStepSweep ==
    /\ stack # <<>> /\ Top.fn = "do_step" /\ Top.pc = "sweep"
    /\ IF Top.ci >= NumCoords
       THEN IF stored_solutions # {} /\ ~(Top.has_unsolved /\ find_all)
            THEN Return(SolvedStored)
            ELSE Return(Unsolved(Top.all_changes))
       ELSE IF FieldGet(Top.field, CoordsAt(Top.ci)) # Unknown
       THEN Goto([Top EXCEPT !.ci = Top.ci + 1])
       ELSE Goto([Top EXCEPT !.pc = "try", !.vi = 1, !.has_controversy = FALSE])
    /\ UNCHANGED bounded_unchanged
    /\ UNCHANGED stored_solutions

\* do_step: for val in KNOWN: the assumption is applied, its row and column
\* are counted, and do_solve runs on the field with max_depth as its limit.
DoStepTry ==
    /\ stack # <<>> /\ Top.fn = "do_step" /\ Top.pc = "try"
    /\ IF Top.vi > Len(KNOWN)
       THEN Goto([Top EXCEPT !.pc = "sweep", !.ci = Top.ci + 1])
       ELSE LET ass == Assumption(CoordsAt(Top.ci), KNOWN[Top.vi])
                field == AssApply(ass, Top.field)
                changed_rows == [Top.changed_rows EXCEPT ![ass.coords[1] + 1] = U8Inc(@)]
                changed_cols == [Top.changed_cols EXCEPT ![ass.coords[2] + 1] = U8Inc(@)]
            IN  Call([Top EXCEPT !.pc = "trial", !.field = field,
                                 !.changed_rows = changed_rows,
                                 !.changed_cols = changed_cols],
                     BoundedFrame(field, Top.max_depth, changed_rows, changed_cols))
    /\ UNCHANGED bounded_unchanged
    /\ UNCHANGED stored_solutions

\* do_step: match self.do_solve(&field, max_depth, &changed_rows, &changed_cols)
DoStepTrial ==
    /\ stack # <<>> /\ Top.fn = "do_step" /\ Top.pc = "trial"
    /\ Returned
    /\ LET ass == Assumption(CoordsAt(Top.ci), KNOWN[Top.vi])
           undone == [Top EXCEPT
                        !.field = AssUnapply(ass, Top.field),
                        !.changed_rows = [Top.changed_rows EXCEPT ![ass.coords[1] + 1] = U8Dec(@)],
                        !.changed_cols = [Top.changed_cols EXCEPT ![ass.coords[2] + 1] = U8Dec(@)],
                        !.pc = "try", !.vi = Top.vi + 1]
       IN  CASE ret.tag = "Solved" ->
                  IF ~find_all THEN Return(SolvedStored) ELSE Goto(undone)
             [] ret.tag = "Unsolved" -> Goto([undone EXCEPT !.has_unsolved = TRUE])
             [] ret.tag = "Controversial" ->
                  IF Top.has_controversy
                  THEN Return(Controversial)
                  ELSE Goto([Top EXCEPT
                               !.field = AssApply(AssInvert(ass), Top.field),
                               !.all_changes = Append(Top.all_changes, AssInvert(ass)),
                               !.has_controversy = TRUE,
                               !.pc = "try", !.vi = Top.vi + 1])
    /\ UNCHANGED bounded_unchanged
    /\ UNCHANGED stored_solutions

\* solve returns: Solved with the stored solutions, Unsolved with the changes
\* applied to a blank field, or Controversial.
BoundedFinish ==
    /\ algorithm = "solve_bounded"
    /\ stack = <<>>
    /\ Returned
    /\ result.tag = "None"
    /\ result' = CASE ret.tag = "Solved" -> Solved(stored_solutions)
                   [] ret.tag = "Unsolved" ->
                        [tag |-> "Unsolved", changes |-> ret.changes,
                         fields |-> {ApplyAll(ret.changes, create_field)}]
                   [] ret.tag = "Controversial" -> Controversial
    /\ UNCHANGED <<row_hints, col_hints, max_depth, find_all, line_cache, algorithm,
                   stack, hs, ret, solved_line>>
    /\ UNCHANGED other_vars

\* Solver::from_hints of the depth-bounded solver: max_depth is a usize.
InitDeepen ==
    /\ \E s \in (1..MaxDeepenSide) \X (1..MaxDeepenSide) :
          /\ row_hints \in [1..s[1] -> PuzzleHintLists]
          /\ col_hints \in [1..s[2] -> PuzzleHintLists]
    /\ max_depth \in {SomeDepth(d) : d \in 0..MaxDeepen}
    /\ find_all \in BOOLEAN
    /\ line_cache = <<>>
    /\ algorithm = "none"
    /\ stack = <<>>
    /\ hs = HarnessIdle
    /\ ret = NoRet
    /\ result = NoRet
    /\ solved_line = NoCall
    /\ earlier = NoEarlier
    /\ ln = LineIdle /\ lres = Idle
    /\ UnitsIdle

NextDeepen ==
    \/ solve_bounded
    \/ BoundedByLines
    \/ BoundedFor
    \/ BoundedStepped
    \/ DoStepSweep
    \/ DoStepTry
    \/ DoStepTrial
    \/ BoundedFinish

SpecDeepen == InitDeepen /\ [][NextDeepen]_vars

\* ------------------------------------------------------------------ C25
BoundedFrames == {stack[i] : i \in {j \in 1..Len(stack) : stack[j].fn = "do_solve_bounded"}}

\* C25: the depth-bounded do_solve deepens iteratively: while it is in its
\* `for depth` loop or has called do_step at depth d, do_step has returned
\* Unsolved without changes for every depth below d on the very field it
\* holds, and changes returned by do_step are never left without a harness
\* run: once they are applied the call is at the top of the outer loop, from
\* where the harness runs and the depth starts at 0 again.
C25_DeepensIteratively ==
    \A f \in BoundedFrames :
        /\ f.unharnessed => f.pc = "outer"
        /\ f.pc \in {"for", "stepped"} =>
              \A e \in 0..(f.depth - 1) : <<e, f.field>> \in f.stepped

\* C25 witness: do_step is running at depth 1 or more for one do_solve call
\* (so every depth below came back without changes on its field), while a
\* do_solve call has taken `continue 'outer` on changes of do_step, run the
\* harness on them and is back at depth 0.
C25_Witness ==
    /\ \E f \in BoundedFrames : f.pc = "stepped" /\ f.depth >= 1
    /\ \E g \in BoundedFrames : g.restarts >= 1 /\ g.pc = "for" /\ g.depth = 0

\* ------------------------------------------------------------------ C26
\* The number of Unknown cells of a field.
UnknownCount(field) ==
    Cardinality({rc \in (1..Len(field.rows)) \X (1..Len(field.cols)) :
                     field.rows[rc[1]][rc[2]] = Unknown})

\* A pass of the harness is over and the loop goes on with the other line
\* type.
HarnessPassContinues ==
    /\ hs.pc \in {"cols", "rows"}
    /\ hs.todo = {}
    /\ ~is_solved(hs.field)
    /\ hs.changed # {}

\* do_solve_2sat has a non-empty change list from do_2sat_step, which it
\* applies before it repeats the step.
DriverContinues ==
    /\ stack # <<>> /\ Top.fn = "do_solve_2sat"
    /\ Top.pc \in {"step_by_lines", "step_2sat"}
    /\ Returned
    /\ ret.tag = "Unsolved" /\ ret.changes # <<>>

\* The activations of the recursive solvers on the call stack.
RecursiveCalls(fn) == {i \in 1..Len(stack) : stack[i].fn = fn}

HarnessPassProgress ==
    HarnessPassContinues => UnknownCount(hs.field) < UnknownCount(hs.pass_start)

DriverProgress ==
    DriverContinues =>
        UnknownCount(ApplyAll(ret.changes, Top.field)) < UnknownCount(Top.field)

RecursionProgress ==
    \A fn \in {"do_solve", "do_solve_2sat", "do_solve_bounded"} :
        \A i, j \in RecursiveCalls(fn) :
            i < j => UnknownCount(stack[j].arg) < UnknownCount(stack[i].arg)

\* C26: every continuation makes progress, which bounds every run: a harness
\* pass after which the loop goes on has turned at least one Unknown cell of
\* the field into a known one, a change list that makes do_solve_2sat repeat
\* its step turns at least one Unknown cell into a known one, and every
\* nested call of a recursive solver was given a field with strictly fewer
\* Unknown cells than the field its caller was given.
C26_EveryContinuationMakesProgress ==
    /\ HarnessPassProgress
    /\ DriverProgress
    /\ RecursionProgress

\* ------------------------------------------------------------------ C27
\* do_solve has the result of the harness run that follows its sweep.
AtFinalMatch ==
    /\ stack # <<>> /\ Top.fn = "do_solve" /\ Top.pc = "final"
    /\ Returned

\* C27: the assertion after the sweep of the recursive do_solve holds
\* whenever it is evaluated: when the final harness run on the swept field
\* returns Solved(res), the solutions collected during the sweep equal res.
C27_FinalAssertionHolds ==
    (AtFinalMatch /\ ret.tag = "Solved") => Top.solutions = ret.fields

====
